---- MODULE Spec2Model ----
(***************************************************************************)
(* Sample-pack binary codec of src/js/parsers/samples_parser.ts:           *)
(* ByteArray (little-endian builder / front-consuming cursor),             *)
(* samplesParser_encode, samplesParser_decode, getPageByteSize,            *)
(* getPackSize and the generateDummySamples fixture.                       *)
(*                                                                         *)
(* A thrown RangeError is modelled as the err field of the value an        *)
(* operation returns: once err is set, the statements that follow the      *)
(* throw in the source are skipped and the function returns no result.     *)
(***************************************************************************)
EXTENDS Integers, Sequences, FiniteSets, TLC

\* ------------------------------------------------------------------------
\* Program constants
\* ------------------------------------------------------------------------
NUM_PAGES == 10

LOOPS_PER_PAGE == 15

\* ------------------------------------------------------------------------
\* Bounds of the model
\* ------------------------------------------------------------------------
\* largest number of present loops in a sparse input pack
MaxPresent == 3

\* largest number of events of a loop in a sparse input pack
MaxEvents == 2

\* packs whose loop-data segment is at most this long get every truncation
MaxTruncSeg == 12

\* ------------------------------------------------------------------------
\* JavaScript 32-bit integer operators
\* ------------------------------------------------------------------------
NoError == "none"

RangeError == "RangeError"

Pow2(n) == 2 ^ n

\* Numbers are the integers of TLC, which are exactly the 32-bit signed
\* integers that the bitwise operators of JavaScript work on.  A number that
\* needs more than 31 bits (a reserved word) is a pair <<hi, lo>> that stands
\* for hi * 65536 + lo, with lo in 0..65535.
Wide(hi, lo) == <<hi, lo>>

\* ToInt32 of a wide number
ToInt32(w) ==
    IF w[1] % 65536 >= 32768
    THEN ((w[1] % 65536) - 65536) * 65536 + w[2]
    ELSE (w[1] % 65536) * 65536 + w[2]

\* a | b on 32-bit signed integers, bit by bit
RECURSIVE OrBits(_, _)
OrBits(a, b) ==
    IF a = 0 THEN b
    ELSE IF b = 0 THEN a
    ELSE IF a = -1 \/ b = -1 THEN -1
    ELSE (IF a % 2 = 1 \/ b % 2 = 1 THEN 1 ELSE 0) + 2 * OrBits(a \div 2, b \div 2)

\* a & b on 32-bit signed integers, bit by bit
RECURSIVE AndBits(_, _)
AndBits(a, b) ==
    IF a = 0 \/ b = 0 THEN 0
    ELSE IF a = -1 THEN b
    ELSE IF b = -1 THEN a
    ELSE (IF a % 2 = 1 /\ b % 2 = 1 THEN 1 ELSE 0) + 2 * AndBits(a \div 2, b \div 2)

\* the low k bits of a are all zero and b has no bit above them
Disjoint(a, b, k) == a % Pow2(k) = 0 /\ 0 <= b /\ b < Pow2(k)

\* a | b; operands without a common bit position are added
BitOr(a, b) ==
    IF \E k \in {7, 8, 16, 24} : Disjoint(a, b, k) \/ Disjoint(b, a, k)
    THEN a + b
    ELSE OrBits(a, b)

\* a & b; a mask 2^k - 1 keeps the low k bits, a modulo 2^k
BitAnd(a, b) ==
    IF b \in {1, 127, 255}
    THEN a % (b + 1)
    ELSE AndBits(a, b)

\* a << n: the low 32 - n bits of a move up, the result is read as signed
Shl(a, n) ==
    IF a % Pow2(32 - n) >= Pow2(31 - n)
    THEN ((a % Pow2(32 - n)) - Pow2(32 - n)) * Pow2(n)
    ELSE (a % Pow2(32 - n)) * Pow2(n)

\* a >> n (sign-propagating)
Shr(a, n) == a \div Pow2(n)

\* the 32 bits of a left signed, as a wide number
SignedWide(a) == Wide(a \div 65536, a % 65536)

\* a >>> 0: the 32 bits of a read as unsigned, a wide number
Unsigned(a) == Wide((a \div 65536) % 65536, a % 65536)

\* ------------------------------------------------------------------------
\* class ByteArray
\* ------------------------------------------------------------------------
\* new ByteArray()
NewByteArray == [data |-> <<>>, err |-> NoError]

\* push8 without its range check: the value is stored modulo 256
push8Unchecked(b, value) == [b EXCEPT !.data = Append(@, value % 256)]

push8(b, value) ==
    IF value < 0 \/ value > 255
    THEN [b EXCEPT !.err = RangeError]
    ELSE [b EXCEPT !.data = Append(@, BitAnd(value, 255))]

\* push16 with the upper limit taken exclusive
push16OffByOne(b, value) ==
    IF value < 0 \/ value >= 65535
    THEN [b EXCEPT !.err = RangeError]
    ELSE [b EXCEPT !.data = @ \o <<BitAnd(value, 255), BitAnd(Shr(value, 8), 255)>>]

\* push16 without its range check: the value is stored modulo 65536
push16Unchecked(b, value) ==
    [b EXCEPT !.data = @ \o <<value % 256, (value \div 256) % 256>>]

push16(b, value) ==
    IF value < 0 \/ value > 65535
    THEN [b EXCEPT !.err = RangeError]
    ELSE [b EXCEPT !.data = @ \o <<BitAnd(value, 255), BitAnd(Shr(value, 8), 255)>>]

\* push32 storing the most significant byte first
push32BigEndian(b, value) ==
    IF value[1] < 0 \/ value[1] > 65535
    THEN [b EXCEPT !.err = RangeError]
    ELSE [b EXCEPT !.data = @ \o <<BitAnd(Shr(ToInt32(value), 24), 255),
                                   BitAnd(Shr(ToInt32(value), 16), 255),
                                   BitAnd(Shr(ToInt32(value), 8), 255),
                                   BitAnd(ToInt32(value), 255)>>]

\* value is a wide number: negative when hi < 0, above 0xFFFFFFFF when hi > 65535
push32(b, value) ==
    IF value[1] < 0 \/ value[1] > 65535
    THEN [b EXCEPT !.err = RangeError]
    ELSE [b EXCEPT !.data = @ \o <<BitAnd(ToInt32(value), 255),
                                   BitAnd(Shr(ToInt32(value), 8), 255),
                                   BitAnd(Shr(ToInt32(value), 16), 255),
                                   BitAnd(Shr(ToInt32(value), 24), 255)>>]

\* a pop returns the value read (v) and the array after the read (b)
pop8(b) ==
    IF Len(b.data) < 1
    THEN [b |-> [b EXCEPT !.err = RangeError], v |-> 0]
    ELSE [b |-> [b EXCEPT !.data = Tail(@)], v |-> b.data[1]]

\* pop16 that also refuses when exactly two bytes remain
pop16Greedy(b) ==
    IF Len(b.data) <= 2
    THEN [b |-> [b EXCEPT !.err = RangeError], v |-> 0]
    ELSE [b |-> [b EXCEPT !.data = Tail(Tail(@))],
          v |-> BitOr(b.data[1], Shl(b.data[2], 8))]

pop16(b) ==
    IF Len(b.data) < 2
    THEN [b |-> [b EXCEPT !.err = RangeError], v |-> 0]
    ELSE [b |-> [b EXCEPT !.data = Tail(Tail(@))],
          v |-> BitOr(b.data[1], Shl(b.data[2], 8))]

\* pop32 that shifts the bytes that are there before it throws
pop32Partial(b) ==
    IF Len(b.data) < 4
    THEN [b |-> [b EXCEPT !.err = RangeError, !.data = <<>>], v |-> Wide(0, 0)]
    ELSE [b |-> [b EXCEPT !.data = Tail(Tail(Tail(Tail(@))))],
          v |-> Unsigned(BitOr(BitOr(BitOr(b.data[1], Shl(b.data[2], 8)),
                                     Shl(b.data[3], 16)), Shl(b.data[4], 24)))]

pop32(b) ==
    IF Len(b.data) < 4
    THEN [b |-> [b EXCEPT !.err = RangeError], v |-> Wide(0, 0)]
    ELSE [b |-> [b EXCEPT !.data = Tail(Tail(Tail(Tail(@))))],
          v |-> Unsigned(BitOr(BitOr(BitOr(b.data[1], Shl(b.data[2], 8)),
                                     Shl(b.data[3], 16)), Shl(b.data[4], 24)))]

add(b, other) == [b EXCEPT !.data = @ \o other.data]

\* ByteArray.from(array)
ByteArrayFrom(array) == [data |-> array, err |-> NoError]

\* run the next statement on b unless an earlier one has thrown
Then(b, Op(_)) == IF b.err # NoError THEN b ELSE Op(b)

\* const x = value; Body(x): the value is computed once and then named
With(value, Body(_)) == CHOOSE y \in {Body(x) : x \in {value}} : TRUE

\* ------------------------------------------------------------------------
\* Data model: NoteEventTime, LoopData, Page, SamplePack
\* ------------------------------------------------------------------------
\* NoteEventTime: [ticks, {note, state, velocity}]
Ev(ticks, note, state, velocity) ==
    <<ticks, [note |-> note, state |-> state, velocity |-> velocity]>>

\* an empty slot: null (or undefined, past the end of a short loops list)
Null == [isNull |-> TRUE]

\* page.loops[loop_idx] with the last entry repeated past the end of the list
LoopAtRepeatLast(page, loop_idx) ==
    IF loop_idx < Len(page.loops) THEN page.loops[loop_idx + 1]
    ELSE IF Len(page.loops) > 0 THEN page.loops[Len(page.loops)]
    ELSE Null

\* page.loops[loop_idx], loop_idx counted from 0
LoopAt(page, loop_idx) ==
    IF loop_idx < Len(page.loops) THEN page.loops[loop_idx + 1] ELSE Null

\* ------------------------------------------------------------------------
\* samplesParser_encode
\* ------------------------------------------------------------------------
\* the event-loop body with the velocity masked to 8 bits instead of 7
EncodeEventWideVelocity(loopData, event) ==
    LET ticks == event[1]
        noteEvent == event[2]
        data == BitOr(Shl(noteEvent.state, 7), BitAnd(noteEvent.velocity, 255))
    IN  Then(Then(push8(loopData, BitAnd(noteEvent.note, 127)),
                  LAMBDA b : push8(b, data)),
             LAMBDA b : push16(b, ticks))

\* the event-loop body with the tick masked to 16 bits before it is written
EncodeEventMaskedTicks(loopData, event) ==
    LET ticks == event[1]
        noteEvent == event[2]
        data == BitOr(Shl(noteEvent.state, 7), BitAnd(noteEvent.velocity, 127))
    IN  Then(Then(push8(loopData, BitAnd(noteEvent.note, 127)),
                  LAMBDA b : push8(b, data)),
             LAMBDA b : push16(b, ticks % 65536))

\* the event-loop body with the packed byte written before the note
EncodeEventDataFirst(loopData, event) ==
    LET ticks == event[1]
        noteEvent == event[2]
        data == BitOr(Shl(noteEvent.state, 7), BitAnd(noteEvent.velocity, 127))
    IN  Then(Then(push8(loopData, data),
                  LAMBDA b : push8(b, BitAnd(noteEvent.note, 127))),
             LAMBDA b : push16(b, ticks))

\* body of the event loop: one event appended to loopData
EncodeEvent(loopData, event) ==
    LET ticks == event[1]
        noteEvent == event[2]
        data == BitOr(Shl(noteEvent.state, 7), BitAnd(noteEvent.velocity, 127))
    IN  Then(Then(push8(loopData, BitAnd(noteEvent.note, 127)),
                  LAMBDA b : push8(b, data)),
             LAMBDA b : push16(b, ticks))

\* for (const event of loop.events): the iterations lo..hi in order, until one
\* throws (the range is halved to keep the evaluation shallow)
RECURSIVE EncodeEvents(_, _, _, _)
EncodeEvents(loopData, events, lo, hi) ==
    IF loopData.err # NoError \/ lo > hi
    THEN loopData
    ELSE IF lo = hi
    THEN EncodeEvent(loopData, events[lo])
    ELSE EncodeEvents(EncodeEvents(loopData, events, lo, (lo + hi) \div 2),
                      events, (lo + hi) \div 2 + 1, hi)

\* the offset of the last byte written so far, as an unsigned 16-bit value
LoopOffsetAbsolute(loopData) == Len(loopData.data) + 336

LoopOffsetLastByte(loopData) == (Len(loopData.data) - 1) % 65536

\* the offset written for a present loop
LoopOffset(loopData) == Len(loopData.data)

\* the slot-loop body with the event count written modulo 256
EncodeLoopCountModulo(st, loop) ==
    IF loop = Null
    THEN [st EXCEPT !.loopOffsets = push16(@, 65535)]
    ELSE LET offs == push16(st.loopOffsets, LoopOffset(st.loopData))
         IN  IF offs.err # NoError
             THEN [st EXCEPT !.loopOffsets = offs]
             ELSE [loopOffsets |-> offs,
                   loopData |-> EncodeEvents(
                       Then(push8(st.loopData, loop.length_beats),
                            LAMBDA b : push8(b, Len(loop.events) % 256)),
                       loop.events, 1, Len(loop.events))]

\* the slot-loop body with the capacity tested on the segment after the loop
\* was appended
EncodeLoopCheckedAtEnd(st, loop) ==
    IF loop = Null
    THEN [st EXCEPT !.loopOffsets = push16(@, 65535)]
    ELSE LET offs == push16(st.loopOffsets, LoopOffset(st.loopData))
             data == EncodeEvents(
                       Then(push8(st.loopData, loop.length_beats),
                            LAMBDA b : push8(b, Len(loop.events))),
                       loop.events, 1, Len(loop.events))
         IN  IF offs.err # NoError
             THEN [st EXCEPT !.loopOffsets = offs]
             ELSE IF Len(data.data) >= 65535
             THEN [st EXCEPT !.loopOffsets = [offs EXCEPT !.err = RangeError]]
             ELSE [loopOffsets |-> offs, loopData |-> data]

\* body of the slot loop; st holds loopOffsets and loopData
EncodeLoop(st, loop) ==
    IF loop = Null
    THEN [st EXCEPT !.loopOffsets = push16(@, 65535)]
    ELSE LET offs == push16(st.loopOffsets, LoopOffset(st.loopData))
         IN  IF offs.err # NoError
             THEN [st EXCEPT !.loopOffsets = offs]
             ELSE [loopOffsets |-> offs,
                   loopData |-> EncodeEvents(
                       Then(push8(st.loopData, loop.length_beats),
                            LAMBDA b : push8(b, Len(loop.events))),
                       loop.events, 1, Len(loop.events))]

EncodeFailed(st) == st.loopOffsets.err # NoError \/ st.loopData.err # NoError

\* for (loop_idx = 0; loop_idx < LOOPS_PER_PAGE; loop_idx++): the iterations
\* lo..hi in order, until one throws
RECURSIVE EncodePageLoops(_, _, _, _)
EncodePageLoops(st, page, lo, hi) ==
    IF EncodeFailed(st) \/ lo > hi
    THEN st
    ELSE IF lo = hi
    THEN EncodeLoop(st, LoopAt(page, lo))
    ELSE EncodePageLoops(EncodePageLoops(st, page, lo, (lo + hi) \div 2),
                         page, (lo + hi) \div 2 + 1, hi)

\* for (page_idx = 0; page_idx < NUM_PAGES; page_idx++): the iterations lo..hi
\* in order, until one throws
RECURSIVE EncodePages(_, _, _, _)
EncodePages(st, samplePack, lo, hi) ==
    IF EncodeFailed(st) \/ lo > hi
    THEN st
    ELSE IF lo = hi
    THEN EncodePageLoops(st, samplePack.pages[lo + 1], 0, LOOPS_PER_PAGE - 1)
    ELSE EncodePages(EncodePages(st, samplePack, lo, (lo + hi) \div 2),
                     samplePack, (lo + hi) \div 2 + 1, hi)

\* the four reserved words
EncodeHeader(samplePack) ==
    Then(Then(Then(push32(NewByteArray, samplePack.reserved0),
                   LAMBDA b : push32(b, samplePack.reserved1)),
              LAMBDA b : push32(b, samplePack.reserved2)),
         LAMBDA b : push32(b, samplePack.reserved3))

\* for (i = 0; i < NUM_PAGES; i++) d.push16(samplePack.pages[i].id): the
\* iterations lo..hi in order, until one throws
RECURSIVE EncodePageIds(_, _, _, _)
EncodePageIds(d, samplePack, lo, hi) ==
    IF d.err # NoError \/ lo > hi
    THEN d
    ELSE IF lo = hi
    THEN push16(d, samplePack.pages[lo + 1].id)
    ELSE EncodePageIds(EncodePageIds(d, samplePack, lo, (lo + hi) \div 2),
                       samplePack, (lo + hi) \div 2 + 1, hi)

\* Uint8Array.from(data): every element is stored modulo 256
Uint8ArrayFrom(data) == [i \in 1..Len(data) |-> data[i] % 256]

\* the loopOffsets and loopData arrays after the two nested loops
EncodedLoops(samplePack) ==
    EncodePages([loopOffsets |-> NewByteArray, loopData |-> NewByteArray],
                samplePack, 0, NUM_PAGES - 1)

\* result: err = NoError and the returned bytes, or err = the error thrown
samplesParser_encode(samplePack) ==
    LET d == EncodePageIds(EncodeHeader(samplePack), samplePack, 0, NUM_PAGES - 1)
        st == EncodedLoops(samplePack)
    IN  IF d.err # NoError THEN [err |-> d.err, bytes |-> <<>>]
        ELSE IF EncodeFailed(st) THEN [err |-> RangeError, bytes |-> <<>>]
        ELSE [err |-> NoError,
              bytes |-> Uint8ArrayFrom(add(add(d, st.loopOffsets), st.loopData).data)]

\* ------------------------------------------------------------------------
\* samplesParser_decode
\* ------------------------------------------------------------------------
\* a read that follows r: skipped when r has thrown
After(r, Pop(_)) == IF r.b.err # NoError THEN r ELSE Pop(r.b)

\* the event-loop body with the note byte taken whole
DecodeEventUnmasked(d) ==
    LET n == pop8(d)
        dt == After(n, pop8)
        tk == After(dt, pop16)
        note == n.v
        data == dt.v
        state == BitAnd(Shr(data, 7), 1)
        velocity == BitAnd(data, 127)
    IN  [b |-> tk.b, v |-> Ev(tk.v, note, state, velocity)]

\* body of the event loop: one event read from d
DecodeEvent(d) ==
    LET n == pop8(d)
        dt == After(n, pop8)
        tk == After(dt, pop16)
        note == BitAnd(n.v, 127)
        data == dt.v
        state == BitAnd(Shr(data, 7), 1)
        velocity == BitAnd(data, 127)
    IN  [b |-> tk.b, v |-> Ev(tk.v, note, state, velocity)]

\* for (i = 0; i < numEvents; i++): the iterations lo..hi in order, until one
\* throws (the range is halved to keep the evaluation shallow); r.v is loop.events
RECURSIVE DecodeEvents(_, _, _)
DecodeEvents(r, lo, hi) ==
    IF r.b.err # NoError \/ lo > hi
    THEN r
    ELSE IF lo = hi
    THEN LET e == DecodeEvent(r.b)
         IN  [b |-> e.b, v |-> Append(r.v, e.v)]
    ELSE DecodeEvents(DecodeEvents(r, lo, (lo + hi) \div 2), (lo + hi) \div 2 + 1, hi)

\* a present loop read with one event fewer than its count byte says
DecodeLoopOneShort(d) ==
    LET lb == pop8(d)
        ne == After(lb, pop8)
        evs == DecodeEvents([b |-> ne.b, v |-> <<>>], 0, ne.v - 2)
    IN  [b |-> evs.b, v |-> [length_beats |-> lb.v, events |-> evs.v]]

\* one present loop read from d
DecodeLoop(d) ==
    LET lb == pop8(d)
        ne == After(lb, pop8)
        evs == DecodeEvents([b |-> ne.b, v |-> <<>>], 0, ne.v - 1)
    IN  [b |-> evs.b, v |-> [length_beats |-> lb.v, events |-> evs.v]]

\* for (i = 0; i < NUM_PAGES; i++) p.pages.push({id: d.pop16(), loops: []}):
\* the iterations lo..hi in order, until one throws; r.v is p.pages
RECURSIVE DecodePageIds(_, _, _)
DecodePageIds(r, lo, hi) ==
    IF r.b.err # NoError \/ lo > hi
    THEN r
    ELSE IF lo = hi
    THEN LET id == pop16(r.b)
         IN  [b |-> id.b, v |-> Append(r.v, [id |-> id.v, loops |-> <<>>])]
    ELSE DecodePageIds(DecodePageIds(r, lo, (lo + hi) \div 2), (lo + hi) \div 2 + 1, hi)

\* an offset entry taken as a JavaScript truth value: 0 counts as absent too
LoopExistsTruthy(offset) == offset # 65535 /\ offset # 0

\* d.pop16() === 0xFFFF ? false : true
LoopExistsEntry(offset) == IF offset = 65535 THEN FALSE ELSE TRUE

\* for (i = 0; i < NUM_PAGES * LOOPS_PER_PAGE; i++) loopExists.push(...): the
\* iterations lo..hi in order, until one throws; r.v is loopExists
RECURSIVE DecodeLoopExists(_, _, _)
DecodeLoopExists(r, lo, hi) ==
    IF r.b.err # NoError \/ lo > hi
    THEN r
    ELSE IF lo = hi
    THEN LET o == pop16(r.b)
         IN  [b |-> o.b, v |-> Append(r.v, LoopExistsEntry(o.v))]
    ELSE DecodeLoopExists(DecodeLoopExists(r, lo, (lo + hi) \div 2),
                          (lo + hi) \div 2 + 1, hi)

\* the index of loopExists consulted for slot loop_idx of page page_idx
ExistsIndex(page_idx, loop_idx) == page_idx * NUM_PAGES + loop_idx

\* the slot-loop body that stores nothing for an absent loop
DecodeSlotSkipEmpty(r, loopExists, page_idx, loop_idx) ==
    IF loopExists[ExistsIndex(page_idx, loop_idx) + 1] = FALSE
    THEN r
    ELSE LET l == DecodeLoop(r.b)
         IN  [b |-> l.b, v |-> Append(r.v, l.v)]

\* body of the slot loop; r.v is page.loops
DecodeSlot(r, loopExists, page_idx, loop_idx) ==
    IF loopExists[ExistsIndex(page_idx, loop_idx) + 1] = FALSE
    THEN [b |-> r.b, v |-> Append(r.v, Null)]
    ELSE LET l == DecodeLoop(r.b)
         IN  [b |-> l.b, v |-> Append(r.v, l.v)]

\* for (loop_idx = 0; loop_idx < LOOPS_PER_PAGE; loop_idx++): the iterations
\* lo..hi in order, until one throws
RECURSIVE DecodePageLoops(_, _, _, _, _)
DecodePageLoops(r, loopExists, page_idx, lo, hi) ==
    IF r.b.err # NoError \/ lo > hi
    THEN r
    ELSE IF lo = hi
    THEN DecodeSlot(r, loopExists, page_idx, lo)
    ELSE DecodePageLoops(DecodePageLoops(r, loopExists, page_idx, lo, (lo + hi) \div 2),
                         loopExists, page_idx, (lo + hi) \div 2 + 1, hi)

\* for (page_idx = 0; page_idx < NUM_PAGES; page_idx++): the iterations lo..hi
\* in order, until one throws; r.v is p.pages
RECURSIVE DecodePages(_, _, _, _)
DecodePages(r, loopExists, lo, hi) ==
    IF r.b.err # NoError \/ lo > hi
    THEN r
    ELSE IF lo = hi
    THEN LET ls == DecodePageLoops([b |-> r.b, v |-> <<>>], loopExists, lo,
                                   0, LOOPS_PER_PAGE - 1)
         IN  [b |-> ls.b, v |-> [r.v EXCEPT ![lo + 1].loops = ls.v]]
    ELSE DecodePages(DecodePages(r, loopExists, lo, (lo + hi) \div 2),
                     loopExists, (lo + hi) \div 2 + 1, hi)

\* what a failed call leaves in place of a pack
NoPack ==
    [reserved0 |-> Wide(0, 0), reserved1 |-> Wide(0, 0), reserved2 |-> Wide(0, 0),
     reserved3 |-> Wide(0, 0), pages |-> <<>>]

\* return p, refused when bytes are left unread
DecodeReturnStrict(d, p) ==
    IF d.data # <<>> THEN [err |-> RangeError, pack |-> NoPack]
    ELSE [err |-> NoError, pack |-> p]

\* return p: whatever is left in d is not looked at
DecodeReturn(d, p) == [err |-> NoError, pack |-> p]

\* the call as a whole: d is the ByteArray when the call ends, and the result
\* is err = NoError and the returned pack, or err = the error thrown
DecodeRun(packedData) ==
    With(pop32(ByteArrayFrom(packedData)), LAMBDA r0 :
    With(After(r0, pop32), LAMBDA r1 :
    With(After(r1, pop32), LAMBDA r2 :
    With(After(r2, pop32), LAMBDA r3 :
    With(DecodePageIds([b |-> r3.b, v |-> <<>>], 0, NUM_PAGES - 1), LAMBDA ids :
    With(DecodeLoopExists([b |-> ids.b, v |-> <<>>], 0, NUM_PAGES * LOOPS_PER_PAGE - 1),
         LAMBDA ex :
    With(IF ex.b.err # NoError
         THEN ex
         ELSE DecodePages([b |-> ex.b, v |-> ids.v], ex.v, 0, NUM_PAGES - 1), LAMBDA pgs :
        [d |-> pgs.b,
         result |-> IF pgs.b.err # NoError
                    THEN [err |-> pgs.b.err, pack |-> NoPack]
                    ELSE DecodeReturn(pgs.b,
                             [reserved0 |-> r0.v, reserved1 |-> r1.v,
                              reserved2 |-> r2.v, reserved3 |-> r3.v,
                              pages |-> pgs.v])])))))))

samplesParser_decode(packedData) == DecodeRun(packedData).result

\* the caller's array if d.data were that array itself and not a copy
PackedDataAliased(packedData, d) == d.data

\* the caller's array when the call ends: Array.from gave d a copy, so the
\* shifts on d.data do not reach it
PackedDataAfter(packedData, d) == packedData

\* ------------------------------------------------------------------------
\* getPageByteSize, getPackSize
\* ------------------------------------------------------------------------
\* the size of a present loop without the byte of the event count
LoopByteSizeNoCount(loop) == 1 + 4 * Len(loop.events)

\* the forEach callback of getPageByteSize for a present loop
LoopByteSize(loop) == 1 + 1 + 4 * Len(loop.events)

\* page.loops.forEach, from the i-th entry of the list on
RECURSIVE PageByteSizeFrom(_, _)
PageByteSizeFrom(page, i) ==
    IF i > Len(page.loops) THEN 0
    ELSE (IF page.loops[i] = Null THEN 0 ELSE LoopByteSize(page.loops[i]))
         + PageByteSizeFrom(page, i + 1)

getPageByteSize(page) == PageByteSizeFrom(page, 1)

\* pack.pages.forEach, from the i-th page on
RECURSIVE PackSizeFrom(_, _)
PackSizeFrom(pack, i) ==
    IF i > Len(pack.pages) THEN 0
    ELSE getPageByteSize(pack.pages[i]) + PackSizeFrom(pack, i + 1)

getPackSize(pack) == PackSizeFrom(pack, 1)

\* ------------------------------------------------------------------------
\* Input packs
\* ------------------------------------------------------------------------
\* a pack from its header words and its pages
SamplePack(reserved, pages) ==
    [reserved0 |-> reserved[1], reserved1 |-> reserved[2], reserved2 |-> reserved[3],
     reserved3 |-> reserved[4], pages |-> pages]

\* slots of the sparse packs: (page, slot) pairs, counted from 0
Positions == {<<0, 0>>, <<0, 10>>, <<1, 0>>, <<1, 5>>, <<7, 0>>, <<9, 14>>}

HeaderStyles == {1, 2, 3}

Reserved(h) ==
    CASE h = 1 -> <<Wide(65535, 65535), Wide(65535, 65535), Wide(65535, 65535), Wide(65535, 65535)>>
      [] h = 2 -> <<Wide(0, 0), Wide(0, 1), Wide(0, 256), Wide(1, 0)>>
      [] OTHER -> <<Wide(32768, 0), Wide(32768, 1), Wide(4660, 22136), Wide(65535, 65534)>>

PageId(h, p) ==
    CASE h = 1 -> 65535
      [] h = 2 -> p
      [] OTHER -> 65280 - 257 * p

\* an in-range loop of n events whose bytes tell its slot
RegularLoop(p, s, n) ==
    [length_beats |-> 200 + p + 3 * s,
     events |-> [i \in 1..n |->
                   Ev(300 + 256 * p + 24 * (i - 1) + s, 30 + 10 * p + (s % 7),
                      i % 2, 127 - s - i)]]

\* the pack with the loops cnt[<<p, s>>] events long at the slots of DOMAIN cnt
SparsePack(h, cnt) ==
    SamplePack(Reserved(h),
        [pg \in 1..NUM_PAGES |->
            [id |-> PageId(h, pg - 1),
             loops |-> [sl \in 1..LOOPS_PER_PAGE |->
                          IF <<pg - 1, sl - 1>> \in DOMAIN cnt
                          THEN RegularLoop(pg - 1, sl - 1, cnt[<<pg - 1, sl - 1>>])
                          ELSE Null]]])

SparseChoices ==
    UNION {[S -> 0..MaxEvents] : S \in {T \in SUBSET Positions : Cardinality(T) <= MaxPresent}}

\* the number of events of a sparse pack
RECURSIVE TotalEvents(_, _)
TotalEvents(cnt, S) ==
    IF S = {} THEN 0
    ELSE LET x == CHOOSE y \in S : TRUE
         IN  cnt[x] + TotalEvents(cnt, S \ {x})

\* the header style varies with the content
SparsePacks ==
    {SparsePack(1 + ((Cardinality(DOMAIN cnt) + TotalEvents(cnt, DOMAIN cnt)) % 3), cnt) :
        cnt \in SparseChoices}

\* tick offsets outside 0..65535
BadTicks == {-1, 65536, 65537, 131071}

\* a pack with one loop, at pos, whose last event (after n in-range events) has tick t
BadTickPack(pos, n, t) ==
    SamplePack(Reserved(2),
        [pg \in 1..NUM_PAGES |->
            [id |-> PageId(2, pg - 1),
             loops |-> [sl \in 1..LOOPS_PER_PAGE |->
                          IF <<pg - 1, sl - 1>> = pos
                          THEN [RegularLoop(pos[1], pos[2], n) EXCEPT
                                  !.events = Append(@, Ev(t, 60, 1, 100))]
                          ELSE IF <<pg - 1, sl - 1>> = <<0, 0>>
                          THEN RegularLoop(0, 0, 1)
                          ELSE Null]]])

BadTickPacks == {BadTickPack(pos, n, t) : pos \in Positions, n \in 0..1, t \in BadTicks}

\* event counts that do not fit the count byte
OverCounts == {256, 257}

\* an in-range loop of n events, n unbounded
LongLoop(k, n) ==
    [length_beats |-> k % 256,
     events |-> [i \in 1..n |-> Ev((257 * i + k) % 65536, i % 128, i % 2, (i + k) % 128)]]

\* a pack with a loop of n events at pos and a one-event loop in slot (0, 0)
OverCountPack(pos, n) ==
    SamplePack(Reserved(2),
        [pg \in 1..NUM_PAGES |->
            [id |-> PageId(2, pg - 1),
             loops |-> [sl \in 1..LOOPS_PER_PAGE |->
                          IF <<pg - 1, sl - 1>> = pos
                          THEN LongLoop(pos[1] + pos[2], n)
                          ELSE IF <<pg - 1, sl - 1>> = <<0, 0>>
                          THEN RegularLoop(0, 0, 1)
                          ELSE Null]]])

OverCountPacks == {OverCountPack(pos, n) : pos \in Positions, n \in OverCounts}

\* numbers of leading slots (page-major) filled in the dense packs
DenseCounts == {64, 65, 66}

\* the largest loop the count byte allows
BigLoop(k) ==
    [length_beats |-> k % 256,
     events |-> [i \in 1..255 |-> Ev((257 * i + k) % 65536, i % 128, i % 2, (i + k) % 128)]]

\* the pack whose first n slots each hold a 255-event loop
DensePack(n) ==
    SamplePack(Reserved(1),
        [pg \in 1..NUM_PAGES |->
            [id |-> PageId(3, pg - 1),
             loops |-> [sl \in 1..LOOPS_PER_PAGE |->
                          IF (pg - 1) * LOOPS_PER_PAGE + (sl - 1) < n
                          THEN BigLoop((pg - 1) * LOOPS_PER_PAGE + sl)
                          ELSE Null]]])

DensePacks == {DensePack(n) : n \in DenseCounts}

generateOGPage ==
    [id |-> 57005,
     loops |-> <<
        [length_beats |-> 4, events |-> <<
            Ev(0, 36, 1, 99), Ev(0, 42, 1, 99), Ev(4, 42, 0, 99), Ev(12, 36, 0, 99),
            Ev(12, 42, 1, 99), Ev(16, 42, 0, 99), Ev(24, 42, 1, 99), Ev(24, 38, 1, 99),
            Ev(28, 42, 0, 99), Ev(28, 38, 0, 99), Ev(36, 42, 1, 99), Ev(40, 42, 0, 99),
            Ev(42, 36, 1, 99), Ev(46, 36, 0, 99), Ev(48, 42, 1, 99), Ev(52, 42, 0, 99),
            Ev(54, 36, 1, 99), Ev(58, 36, 0, 99), Ev(60, 36, 1, 99), Ev(60, 42, 1, 99),
            Ev(64, 42, 0, 99), Ev(72, 36, 0, 99), Ev(72, 38, 1, 99), Ev(72, 42, 1, 99),
            Ev(76, 42, 0, 99), Ev(84, 38, 0, 99), Ev(84, 42, 1, 99), Ev(88, 42, 0, 99),
            Ev(90, 46, 1, 99), Ev(94, 46, 0, 99)
        >>],
        [length_beats |-> 4, events |-> <<
            Ev(0, 36, 1, 122), Ev(0, 42, 1, 114), Ev(6, 42, 0, 114), Ev(12, 36, 0, 122),
            Ev(12, 37, 1, 126), Ev(12, 42, 1, 100), Ev(18, 37, 0, 126), Ev(18, 42, 0, 100),
            Ev(18, 36, 1, 122), Ev(19, 36, 0, 122), Ev(24, 36, 1, 122), Ev(24, 42, 1, 114),
            Ev(25, 42, 0, 114), Ev(30, 37, 1, 114), Ev(36, 36, 0, 122), Ev(36, 37, 0, 114),
            Ev(36, 42, 1, 85), Ev(37, 42, 0, 85), Ev(42, 36, 1, 126), Ev(43, 36, 0, 126),
            Ev(48, 36, 1, 122), Ev(48, 37, 1, 126), Ev(48, 42, 1, 126), Ev(54, 37, 0, 126),
            Ev(54, 42, 0, 126), Ev(60, 36, 0, 122), Ev(60, 42, 1, 50), Ev(61, 42, 0, 50),
            Ev(66, 37, 1, 126), Ev(66, 36, 1, 126), Ev(72, 37, 0, 126), Ev(72, 36, 0, 126),
            Ev(72, 42, 1, 126), Ev(72, 36, 1, 126), Ev(78, 42, 0, 126), Ev(84, 36, 0, 126),
            Ev(84, 42, 1, 77), Ev(84, 37, 1, 126), Ev(85, 42, 0, 77), Ev(90, 37, 0, 126),
            Ev(90, 46, 1, 114), Ev(90, 36, 1, 126), Ev(91, 46, 0, 114), Ev(91, 36, 0, 126)
        >>],
        [length_beats |-> 4, events |-> <<
            Ev(0, 42, 1, 85), Ev(0, 36, 1, 99), Ev(0, 55, 1, 97), Ev(6, 42, 0, 85),
            Ev(6, 36, 0, 99), Ev(6, 55, 0, 97), Ev(6, 36, 1, 56), Ev(12, 36, 0, 56),
            Ev(12, 42, 1, 25), Ev(18, 42, 0, 25), Ev(18, 36, 1, 109), Ev(24, 36, 0, 109),
            Ev(24, 38, 1, 104), Ev(24, 42, 1, 67), Ev(25, 38, 0, 104), Ev(30, 42, 0, 67),
            Ev(30, 38, 1, 74), Ev(31, 38, 0, 74), Ev(36, 42, 1, 67), Ev(42, 42, 0, 67),
            Ev(42, 38, 1, 53), Ev(48, 38, 0, 53), Ev(48, 42, 1, 85), Ev(54, 42, 0, 85),
            Ev(54, 38, 1, 31), Ev(60, 38, 0, 31), Ev(60, 42, 1, 85), Ev(60, 36, 1, 98),
            Ev(66, 36, 0, 98), Ev(66, 42, 0, 85), Ev(72, 42, 1, 77), Ev(78, 42, 0, 77),
            Ev(78, 38, 1, 94), Ev(84, 38, 0, 94), Ev(84, 42, 1, 77), Ev(90, 42, 0, 77),
            Ev(90, 38, 1, 94), Ev(96, 38, 0, 94)
        >>],
        [length_beats |-> 4, events |-> <<
            Ev(0, 36, 1, 122), Ev(0, 42, 1, 114), Ev(4, 36, 0, 122), Ev(4, 42, 0, 114),
            Ev(8, 42, 1, 62), Ev(12, 42, 0, 62), Ev(16, 42, 1, 89), Ev(17, 42, 0, 89),
            Ev(24, 42, 1, 114), Ev(24, 38, 1, 114), Ev(28, 42, 0, 114), Ev(28, 38, 0, 114),
            Ev(32, 42, 1, 77), Ev(36, 42, 0, 77), Ev(40, 42, 1, 107), Ev(44, 42, 0, 107),
            Ev(48, 42, 1, 114), Ev(48, 36, 1, 126), Ev(52, 42, 0, 114), Ev(52, 36, 0, 126),
            Ev(56, 42, 1, 85), Ev(60, 42, 0, 85), Ev(64, 42, 1, 100), Ev(65, 42, 0, 100),
            Ev(72, 42, 1, 114), Ev(72, 38, 1, 122), Ev(76, 42, 0, 114), Ev(76, 38, 0, 122),
            Ev(80, 42, 1, 95), Ev(81, 42, 0, 95), Ev(88, 42, 1, 107), Ev(88, 36, 1, 109),
            Ev(89, 42, 0, 107), Ev(89, 36, 0, 109)
        >>],
        [length_beats |-> 4, events |-> <<
            Ev(0, 36, 1, 114), Ev(0, 42, 1, 95), Ev(4, 36, 0, 114), Ev(4, 42, 0, 95),
            Ev(12, 42, 1, 90), Ev(12, 36, 1, 110), Ev(16, 42, 0, 90), Ev(16, 36, 0, 110),
            Ev(24, 37, 1, 73), Ev(24, 42, 1, 95), Ev(28, 37, 0, 73), Ev(28, 42, 0, 95),
            Ev(36, 42, 1, 70), Ev(40, 42, 0, 70), Ev(48, 36, 1, 116), Ev(48, 42, 1, 87),
            Ev(52, 36, 0, 116), Ev(52, 42, 0, 87), Ev(60, 36, 1, 114), Ev(60, 42, 1, 88),
            Ev(64, 36, 0, 114), Ev(64, 42, 0, 88), Ev(72, 37, 1, 69), Ev(72, 42, 1, 73),
            Ev(76, 37, 0, 69), Ev(76, 42, 0, 73), Ev(84, 46, 1, 91), Ev(88, 46, 0, 91)
        >>],
        [length_beats |-> 4, events |-> <<
            Ev(0, 42, 1, 88), Ev(0, 36, 1, 88), Ev(2, 42, 0, 88), Ev(2, 36, 0, 88),
            Ev(12, 46, 1, 67), Ev(14, 46, 0, 67), Ev(24, 42, 1, 80), Ev(24, 37, 1, 115),
            Ev(26, 42, 0, 80), Ev(26, 37, 0, 115), Ev(36, 42, 1, 77), Ev(36, 36, 1, 47),
            Ev(38, 42, 0, 77), Ev(38, 36, 0, 47), Ev(48, 46, 1, 79), Ev(48, 36, 1, 87),
            Ev(50, 46, 0, 79), Ev(50, 36, 0, 87), Ev(60, 42, 1, 70), Ev(62, 42, 0, 70),
            Ev(72, 42, 1, 67), Ev(72, 37, 1, 113), Ev(74, 42, 0, 67), Ev(74, 37, 0, 113),
            Ev(84, 42, 1, 79), Ev(84, 36, 1, 48), Ev(86, 42, 0, 79), Ev(86, 36, 0, 48)
        >>],
        [length_beats |-> 4, events |-> <<
            Ev(0, 46, 1, 84), Ev(0, 36, 1, 108), Ev(0, 37, 1, 107), Ev(4, 46, 0, 84),
            Ev(4, 36, 0, 108), Ev(4, 37, 0, 107), Ev(8, 42, 1, 92), Ev(12, 42, 0, 92),
            Ev(16, 37, 1, 84), Ev(20, 37, 0, 84), Ev(24, 38, 1, 108), Ev(24, 37, 1, 90),
            Ev(24, 42, 1, 93), Ev(28, 38, 0, 108), Ev(28, 37, 0, 90), Ev(28, 42, 0, 93),
            Ev(40, 37, 1, 89), Ev(44, 37, 0, 89), Ev(48, 42, 1, 81), Ev(48, 36, 1, 105),
            Ev(48, 37, 1, 79), Ev(52, 42, 0, 81), Ev(52, 36, 0, 105), Ev(52, 37, 0, 79),
            Ev(64, 37, 1, 84), Ev(68, 37, 0, 84), Ev(72, 38, 1, 109), Ev(72, 37, 1, 85),
            Ev(72, 42, 1, 88), Ev(76, 38, 0, 109), Ev(76, 37, 0, 85), Ev(76, 42, 0, 88),
            Ev(88, 37, 1, 87), Ev(92, 37, 0, 87)
        >>],
        [length_beats |-> 4, events |-> <<
            Ev(0, 44, 1, 93), Ev(0, 36, 1, 116), Ev(3, 44, 0, 64), Ev(3, 36, 0, 64),
            Ev(6, 44, 1, 93), Ev(9, 44, 0, 64), Ev(12, 46, 1, 94), Ev(15, 46, 0, 64),
            Ev(24, 40, 1, 118), Ev(24, 44, 1, 88), Ev(24, 36, 1, 116), Ev(27, 40, 0, 64),
            Ev(27, 44, 0, 64), Ev(27, 36, 0, 64), Ev(36, 46, 1, 96), Ev(39, 46, 0, 64),
            Ev(48, 44, 1, 94), Ev(48, 36, 1, 116), Ev(51, 44, 0, 64), Ev(51, 36, 0, 64),
            Ev(54, 44, 1, 89), Ev(57, 44, 0, 64), Ev(60, 46, 1, 93), Ev(63, 46, 0, 64),
            Ev(72, 44, 1, 98), Ev(72, 40, 1, 118), Ev(72, 36, 1, 116), Ev(75, 44, 0, 64),
            Ev(75, 40, 0, 64), Ev(75, 36, 0, 64), Ev(84, 46, 1, 92), Ev(87, 46, 0, 64)
        >>],
        [length_beats |-> 4, events |-> <<
            Ev(0, 42, 1, 114), Ev(0, 36, 1, 114), Ev(6, 42, 0, 114), Ev(6, 36, 0, 114),
            Ev(12, 42, 1, 100), Ev(12, 36, 1, 104), Ev(18, 42, 0, 100), Ev(18, 36, 0, 104),
            Ev(24, 42, 1, 114), Ev(24, 38, 1, 126), Ev(30, 42, 0, 114), Ev(30, 38, 0, 126),
            Ev(36, 42, 1, 73), Ev(37, 42, 0, 73), Ev(42, 38, 1, 99), Ev(48, 38, 0, 99),
            Ev(48, 36, 1, 122), Ev(48, 42, 1, 107), Ev(54, 36, 0, 122), Ev(60, 42, 0, 107),
            Ev(60, 42, 1, 100), Ev(60, 36, 1, 109), Ev(66, 42, 0, 100), Ev(66, 36, 0, 109),
            Ev(66, 37, 0, 0), Ev(66, 37, 0, 0), Ev(67, 37, 1, 5), Ev(67, 37, 0, 5),
            Ev(68, 37, 1, 10), Ev(68, 37, 0, 10), Ev(68, 37, 1, 15), Ev(69, 37, 0, 15),
            Ev(69, 37, 1, 20), Ev(70, 37, 0, 20), Ev(70, 37, 1, 26), Ev(70, 37, 0, 26),
            Ev(70, 37, 1, 31), Ev(71, 37, 0, 31), Ev(71, 37, 1, 36), Ev(72, 37, 0, 36),
            Ev(72, 37, 1, 41), Ev(72, 37, 0, 41), Ev(73, 37, 1, 46), Ev(73, 37, 0, 46),
            Ev(74, 37, 1, 52), Ev(74, 37, 0, 52), Ev(74, 37, 1, 57), Ev(75, 37, 0, 57),
            Ev(75, 37, 1, 61), Ev(76, 37, 0, 61), Ev(76, 37, 1, 66), Ev(76, 37, 0, 66),
            Ev(76, 37, 1, 71), Ev(77, 37, 0, 71), Ev(77, 37, 1, 77), Ev(78, 37, 0, 77),
            Ev(78, 37, 1, 82), Ev(78, 37, 0, 82), Ev(79, 37, 1, 87), Ev(79, 37, 0, 87),
            Ev(80, 37, 1, 92), Ev(80, 37, 0, 92), Ev(80, 37, 1, 97), Ev(81, 37, 0, 97),
            Ev(81, 37, 1, 103), Ev(82, 37, 0, 103), Ev(82, 37, 1, 108), Ev(82, 37, 0, 108),
            Ev(82, 37, 1, 113), Ev(83, 37, 0, 113), Ev(83, 37, 1, 118), Ev(84, 37, 0, 118),
            Ev(84, 38, 1, 111), Ev(85, 38, 0, 111), Ev(86, 38, 1, 118), Ev(87, 38, 0, 118),
            Ev(87, 38, 1, 107), Ev(88, 38, 0, 107), Ev(88, 38, 1, 96), Ev(90, 38, 0, 96),
            Ev(90, 38, 1, 85), Ev(91, 38, 0, 85), Ev(92, 38, 1, 75), Ev(93, 38, 0, 75),
            Ev(93, 38, 1, 64), Ev(94, 38, 0, 64), Ev(94, 38, 1, 54), Ev(96, 38, 0, 54)
        >>],
        [length_beats |-> 4, events |-> <<
            Ev(0, 51, 1, 95), Ev(6, 51, 0, 95), Ev(12, 51, 1, 100), Ev(13, 51, 0, 100),
            Ev(24, 38, 1, 126), Ev(24, 51, 1, 126), Ev(30, 38, 0, 126), Ev(30, 51, 0, 126),
            Ev(36, 51, 1, 89), Ev(37, 51, 0, 89), Ev(42, 51, 1, 114), Ev(43, 51, 0, 114),
            Ev(48, 51, 1, 126), Ev(54, 51, 0, 126), Ev(60, 45, 1, 126), Ev(60, 51, 1, 126),
            Ev(66, 45, 0, 126), Ev(66, 51, 0, 126), Ev(72, 51, 1, 100), Ev(73, 51, 0, 100),
            Ev(84, 51, 1, 107), Ev(84, 45, 1, 126), Ev(90, 51, 0, 107), Ev(90, 45, 0, 126)
        >>],
        [length_beats |-> 4, events |-> <<
            Ev(0, 36, 1, 99), Ev(0, 42, 1, 99), Ev(4, 36, 0, 99), Ev(4, 42, 0, 99),
            Ev(8, 42, 1, 61), Ev(12, 42, 0, 61), Ev(12, 42, 1, 99), Ev(12, 46, 1, 62),
            Ev(16, 42, 0, 99), Ev(16, 46, 0, 62), Ev(20, 42, 1, 61), Ev(24, 42, 0, 61),
            Ev(24, 42, 1, 99), Ev(24, 40, 1, 99), Ev(24, 38, 1, 77), Ev(28, 42, 0, 99),
            Ev(28, 40, 0, 99), Ev(28, 38, 0, 77), Ev(32, 42, 1, 61), Ev(36, 42, 0, 61),
            Ev(36, 37, 1, 77), Ev(36, 42, 1, 99), Ev(36, 46, 1, 62), Ev(40, 37, 0, 77),
            Ev(40, 42, 0, 99), Ev(40, 46, 0, 62), Ev(44, 37, 1, 48), Ev(44, 42, 1, 61),
            Ev(48, 37, 0, 48), Ev(48, 42, 0, 61), Ev(48, 42, 1, 99), Ev(48, 36, 1, 99),
            Ev(52, 42, 0, 99), Ev(52, 36, 0, 99), Ev(56, 37, 1, 62), Ev(56, 42, 1, 61),
            Ev(60, 37, 0, 62), Ev(60, 42, 0, 61), Ev(60, 37, 1, 77), Ev(60, 42, 1, 99),
            Ev(60, 46, 1, 62), Ev(64, 46, 0, 62), Ev(64, 37, 0, 77), Ev(64, 42, 0, 99),
            Ev(68, 38, 1, 77), Ev(68, 40, 1, 99), Ev(68, 42, 1, 61), Ev(68, 46, 1, 62),
            Ev(72, 38, 0, 77), Ev(72, 40, 0, 99), Ev(72, 42, 0, 61), Ev(72, 46, 0, 62),
            Ev(72, 42, 1, 99), Ev(76, 42, 0, 99), Ev(80, 42, 1, 61), Ev(84, 42, 0, 61),
            Ev(84, 42, 1, 99), Ev(88, 42, 0, 99), Ev(92, 42, 1, 61), Ev(92, 36, 1, 77),
            Ev(96, 42, 0, 61), Ev(96, 36, 0, 77)
        >>],
        [length_beats |-> 4, events |-> <<
            Ev(0, 42, 1, 95), Ev(0, 36, 1, 95), Ev(4, 42, 0, 95), Ev(4, 36, 0, 95),
            Ev(6, 42, 1, 60), Ev(10, 42, 0, 60), Ev(12, 42, 1, 95), Ev(12, 46, 1, 64),
            Ev(15, 46, 0, 64), Ev(16, 42, 0, 95), Ev(18, 42, 1, 60), Ev(22, 42, 0, 60),
            Ev(24, 37, 1, 95), Ev(24, 40, 1, 94), Ev(27, 40, 0, 94), Ev(28, 37, 0, 95),
            Ev(30, 47, 1, 67), Ev(34, 47, 0, 67), Ev(36, 46, 1, 66), Ev(39, 46, 0, 66),
            Ev(42, 37, 1, 95), Ev(42, 40, 1, 94), Ev(45, 40, 0, 94), Ev(46, 37, 0, 95),
            Ev(48, 36, 1, 95), Ev(48, 42, 1, 66), Ev(48, 42, 1, 66), Ev(52, 36, 0, 95),
            Ev(52, 42, 0, 66), Ev(52, 42, 0, 66), Ev(56, 36, 1, 95), Ev(56, 42, 1, 65),
            Ev(56, 42, 1, 65), Ev(60, 36, 0, 95), Ev(60, 42, 0, 65), Ev(60, 42, 0, 65),
            Ev(64, 36, 1, 95), Ev(64, 42, 1, 61), Ev(68, 36, 0, 95), Ev(68, 42, 0, 61),
            Ev(72, 42, 1, 95), Ev(72, 37, 1, 95), Ev(72, 45, 1, 67), Ev(72, 40, 1, 95),
            Ev(75, 40, 0, 95), Ev(76, 42, 0, 95), Ev(76, 37, 0, 95), Ev(76, 45, 0, 67),
            Ev(78, 42, 1, 60), Ev(82, 42, 0, 60), Ev(84, 42, 1, 95), Ev(84, 47, 1, 67),
            Ev(84, 46, 1, 67), Ev(87, 46, 0, 67), Ev(88, 42, 0, 95), Ev(88, 47, 0, 67),
            Ev(90, 42, 1, 60), Ev(90, 36, 1, 95), Ev(91, 42, 0, 60), Ev(93, 36, 0, 95),
            Ev(93, 42, 1, 59), Ev(94, 42, 0, 59)
        >>],
        [length_beats |-> 4, events |-> <<
            Ev(0, 42, 1, 114), Ev(0, 36, 1, 126), Ev(6, 42, 0, 114), Ev(6, 36, 0, 126),
            Ev(6, 42, 1, 95), Ev(7, 42, 0, 95), Ev(12, 42, 1, 58), Ev(13, 42, 0, 58),
            Ev(18, 42, 1, 107), Ev(18, 40, 1, 122), Ev(19, 42, 0, 107), Ev(19, 40, 0, 122),
            Ev(24, 42, 1, 126), Ev(24, 36, 1, 109), Ev(25, 36, 0, 109), Ev(30, 42, 0, 126),
            Ev(30, 42, 1, 85), Ev(31, 42, 0, 85), Ev(36, 42, 1, 27), Ev(36, 40, 1, 122),
            Ev(37, 42, 0, 27), Ev(42, 40, 0, 122), Ev(42, 42, 1, 114), Ev(43, 42, 0, 114),
            Ev(48, 42, 1, 126), Ev(48, 36, 1, 126), Ev(54, 42, 0, 126), Ev(54, 36, 0, 126),
            Ev(60, 42, 1, 70), Ev(61, 42, 0, 70), Ev(66, 42, 1, 107), Ev(66, 40, 1, 114),
            Ev(67, 42, 0, 107), Ev(72, 40, 0, 114), Ev(72, 42, 1, 126), Ev(72, 36, 1, 114),
            Ev(78, 42, 0, 126), Ev(78, 36, 0, 114), Ev(78, 42, 1, 73), Ev(79, 42, 0, 73),
            Ev(84, 42, 1, 40), Ev(84, 40, 1, 99), Ev(85, 42, 0, 40), Ev(90, 40, 0, 99),
            Ev(90, 42, 1, 107), Ev(90, 38, 1, 114), Ev(91, 42, 0, 107), Ev(96, 38, 0, 114)
        >>],
        [length_beats |-> 4, events |-> <<
            Ev(0, 51, 1, 114), Ev(0, 36, 1, 126), Ev(0, 38, 1, 90), Ev(1, 51, 0, 114),
            Ev(1, 38, 0, 90), Ev(6, 36, 0, 126), Ev(6, 51, 1, 89), Ev(7, 51, 0, 89),
            Ev(12, 51, 1, 89), Ev(13, 51, 0, 89), Ev(18, 51, 1, 100), Ev(18, 40, 1, 122),
            Ev(19, 51, 0, 100), Ev(24, 40, 0, 122), Ev(24, 51, 1, 100), Ev(25, 51, 0, 100),
            Ev(30, 51, 1, 100), Ev(31, 51, 0, 100), Ev(36, 51, 1, 114), Ev(36, 40, 1, 122),
            Ev(37, 51, 0, 114), Ev(42, 40, 0, 122), Ev(42, 51, 1, 114), Ev(42, 51, 1, 100),
            Ev(43, 51, 0, 114), Ev(48, 51, 0, 100), Ev(48, 51, 1, 95), Ev(48, 36, 1, 126),
            Ev(48, 38, 1, 114), Ev(54, 51, 0, 95), Ev(54, 36, 0, 126), Ev(54, 38, 0, 114),
            Ev(60, 51, 1, 114), Ev(60, 51, 1, 89), Ev(61, 51, 0, 114), Ev(66, 51, 0, 89),
            Ev(66, 40, 1, 126), Ev(72, 40, 0, 126), Ev(72, 51, 1, 126), Ev(72, 51, 1, 89),
            Ev(73, 51, 0, 126), Ev(78, 51, 0, 89), Ev(84, 51, 1, 95), Ev(84, 45, 1, 122),
            Ev(85, 51, 0, 95), Ev(90, 45, 0, 122), Ev(90, 51, 1, 114), Ev(90, 45, 1, 109),
            Ev(91, 51, 0, 114), Ev(96, 45, 0, 109)
        >>],
        [length_beats |-> 4, events |-> <<
            Ev(0, 43, 1, 44), Ev(0, 36, 1, 123), Ev(0, 51, 1, 98), Ev(6, 43, 0, 44),
            Ev(6, 36, 0, 123), Ev(6, 51, 0, 98), Ev(12, 43, 1, 38), Ev(18, 43, 0, 38),
            Ev(24, 43, 1, 80), Ev(24, 40, 1, 115), Ev(24, 51, 1, 98), Ev(28, 43, 0, 80),
            Ev(28, 40, 0, 115), Ev(30, 51, 0, 98), Ev(36, 36, 1, 72), Ev(36, 43, 1, 41),
            Ev(39, 47, 1, 17), Ev(42, 36, 0, 72), Ev(42, 43, 0, 41), Ev(45, 47, 0, 17),
            Ev(48, 43, 1, 83), Ev(48, 36, 1, 99), Ev(48, 51, 1, 97), Ev(54, 43, 0, 83),
            Ev(54, 36, 0, 99), Ev(54, 51, 0, 97), Ev(60, 43, 1, 43), Ev(60, 36, 1, 103),
            Ev(64, 43, 0, 43), Ev(64, 36, 0, 103), Ev(72, 40, 1, 105), Ev(72, 47, 1, 89),
            Ev(72, 43, 1, 62), Ev(72, 51, 1, 95), Ev(76, 40, 0, 105), Ev(76, 47, 0, 89),
            Ev(78, 43, 0, 62), Ev(78, 51, 0, 95), Ev(84, 43, 1, 41), Ev(84, 36, 1, 82),
            Ev(88, 43, 0, 41), Ev(88, 36, 0, 82)
        >>]
     >>]

generateDummyPage2 ==
    [id |-> 48879,
     loops |-> <<
        [length_beats |-> 2, events |-> <<
            Ev(0, 42, 1, 59), Ev(0, 36, 1, 81), Ev(12, 42, 0, 64), Ev(12, 36, 0, 64),
            Ev(12, 42, 1, 81), Ev(24, 42, 0, 64), Ev(24, 42, 1, 59), Ev(24, 38, 1, 81),
            Ev(24, 36, 1, 81), Ev(36, 42, 0, 64), Ev(36, 38, 0, 64), Ev(36, 36, 0, 64),
            Ev(36, 42, 1, 81), Ev(48, 42, 0, 64)
        >>],
        [length_beats |-> 4, events |-> <<
            Ev(0, 42, 1, 81), Ev(0, 36, 1, 81), Ev(12, 42, 0, 64), Ev(12, 36, 0, 64),
            Ev(12, 42, 1, 81), Ev(12, 36, 1, 81), Ev(24, 42, 0, 64), Ev(24, 36, 0, 64),
            Ev(24, 42, 1, 81), Ev(24, 38, 1, 81), Ev(36, 42, 0, 64), Ev(36, 38, 0, 64),
            Ev(36, 42, 1, 81), Ev(36, 38, 1, 81), Ev(48, 42, 0, 64), Ev(48, 38, 0, 64),
            Ev(48, 42, 1, 81), Ev(48, 36, 1, 81), Ev(60, 42, 0, 64), Ev(60, 36, 0, 64),
            Ev(60, 42, 1, 81), Ev(72, 42, 0, 64), Ev(72, 42, 1, 81), Ev(72, 38, 1, 81),
            Ev(84, 42, 0, 64), Ev(84, 38, 0, 64), Ev(84, 42, 1, 81), Ev(96, 42, 0, 64)
        >>]
     >>]

generateDummySamples ==
    SamplePack(<<Wide(65535, 65535), Wide(65535, 65535), Wide(65535, 65535), Wide(65535, 65535)>>,
        [pg \in 1..10 |->
            CASE pg = 2 -> generateOGPage
              [] pg = 3 -> generateDummyPage2
              [] OTHER -> [id |-> 65535, loops |-> [sl \in 1..LOOPS_PER_PAGE |-> Null]]])

\* lengths of a loops list shorter than LOOPS_PER_PAGE, and the pages cut
ShortListLengths == {0, 1, 6, 14}

ShortListPages == {0, 1, 9}

\* a pack with loops in slots (0, 0), (1, 0) and (1, 5) whose page p has a
\* loops list of only n entries
ShortListPack(p, n) ==
    [SparsePack(3, [pos \in {<<0, 0>>, <<1, 0>>, <<1, 5>>} |-> 1 + (pos[2] % 2)])
        EXCEPT !.pages[p + 1].loops = SubSeq(@, 1, n)]

ShortListPacks == {ShortListPack(p, n) : p \in ShortListPages, n \in ShortListLengths}

InputPacks ==
    SparsePacks \cup BadTickPacks \cup OverCountPacks \cup DensePacks
        \cup ShortListPacks \cup {generateDummySamples}

\* events encoded and decoded on their own
EventTicks == {0, 255, 256, 65535, 65536}

EventNotes == {0, 1, 127, 128, 200, 255}

EventStates == {0, 1, 2, 3, 255, -1, 16777215, 33554432, 33554433}

EventVelocities == {0, 1, 127, 128, 255}

EventInputs ==
    {Ev(t, n, s, v) : t \in EventTicks, n \in EventNotes, s \in EventStates,
                      v \in EventVelocities}

\* ------------------------------------------------------------------------
\* State
\* ------------------------------------------------------------------------
\* pack:      the SamplePack handed to samplesParser_encode
\* phase:     "input", "encoded" or "decoded"
\* encoded:   the result of samplesParser_encode(pack)
\* buffer:    the Uint8Array handed to samplesParser_decode
\* decoded:   the result of samplesParser_decode(buffer)
\* event:     a NoteEventTime run through the body of the encoder's event loop
\* eventData: loopData after that body ran on an empty array
\* eventOut:  the result of the body of the decoder's event loop on those bytes
VARIABLES pack, phase, encoded, buffer, decoded, event, eventData, eventOut,
          builder, lastOp, pushed

\* the device-utility page (device-utility.astro)
\* mainScene, updateScene: the views the two scenes show
\* advancedOptions, firmwareVersions, deviceFirmwareVersion,
\* connectionReestablishedResolver: the script's variables of those names
\* getDeviceFirmwarePending, getFirmwareUpdatesPending: the calls of
\*     getDeviceFirmware and getFirmwareUpdates suspended at their await
\* script:      the calls of deviceUpdateScript, each with the await it is
\*              suspended at and its firmwareVersion, and, while it runs,
\*              whether a connection-reestablished event had been delivered
\*              when it created waitForUpdateApplied (early) and whether one
\*              was delivered since (fresh)
\* reconnected: a connection-reestablished event has been delivered
VARIABLES mainScene, updateScene, advancedOptions, firmwareVersions,
          deviceFirmwareVersion, connectionReestablishedResolver,
          getDeviceFirmwarePending, getFirmwareUpdatesPending, script,
          reconnected

codecVars == <<pack, phase, encoded, buffer, decoded, event, eventData, eventOut,
               builder, lastOp, pushed>>

pageVars == <<mainScene, updateScene, advancedOptions, firmwareVersions,
              deviceFirmwareVersion, connectionReestablishedResolver,
              getDeviceFirmwarePending, getFirmwareUpdatesPending, script,
              reconnected>>

vars == <<codecVars, pageVars>>

\* the most calls of deviceUpdateScript, and the most suspended calls of
\* getDeviceFirmware and of getFirmwareUpdates, in one run of the page
MaxRuns == 2

MaxRequests == 1

Runs == 1 .. MaxRuns

\* let firmwareVersions: Changelog = null
NoChangelog == [release |-> 0, dev |-> 0, versions |-> <<>>]

\* let deviceFirmwareVersion: ImageFirmwareVersion = null
NoVersion == 0

\* let connectionReestablishedResolver = null
NoResolver == 0

\* a call of deviceUpdateScript that has not been made
NoRun == [stage |-> "idle", firmwareVersion |-> NoVersion,
          early |-> FALSE, fresh |-> FALSE]

\* a call of deviceUpdateScript that has returned, by its end or by its catch
Ended(stage) == [NoRun EXCEPT !.stage = stage]

\* the page after its script has run: nothing connected, nothing fetched
PageLoaded ==
    /\ mainScene = "disconnected"
    /\ updateScene = "loading"
    /\ advancedOptions = FALSE
    /\ firmwareVersions = NoChangelog
    /\ deviceFirmwareVersion = NoVersion
    /\ connectionReestablishedResolver = NoResolver
    /\ getDeviceFirmwarePending = 0
    /\ getFirmwareUpdatesPending = 0
    /\ script = [r \in Runs |-> NoRun]
    /\ reconnected = FALSE

NoEncoded == [err |-> NoError, bytes |-> <<>>]

NoDecoded == [err |-> NoError, pack |-> NoPack]

NoEvent == Ev(0, 0, 0, 0)

NoEventOut == [b |-> NewByteArray, v |-> NoEvent]

\* the in-range values written since the builder was last empty and not read
\* back before the last pop (values), whether the first of them is the one the
\* last pop read back (next = 1), and whether every read so far was a pop of
\* the width of the value then first (inOrder)
NoPushed == [values |-> <<>>, next |-> 0, inOrder |-> TRUE]

\* no builder operation has run yet
NoOp == [op |-> "none", value |-> 0, err |-> NoError, before |-> <<>>]

Init ==
    /\ pack \in InputPacks
    /\ phase = "input"
    /\ encoded = NoEncoded
    /\ buffer = <<>>
    /\ decoded = NoDecoded
    /\ event = NoEvent
    /\ eventData = NewByteArray
    /\ eventOut = NoEventOut
    /\ builder = NewByteArray
    /\ lastOp = NoOp
    /\ pushed = NoPushed
    /\ PageLoaded

\* samplesParser_encode(pack)
Encode ==
    /\ phase = "input"
    /\ encoded' = samplesParser_encode(pack)
    /\ phase' = "encoded"
    /\ UNCHANGED <<pack, buffer, decoded, event, eventData, eventOut, builder, lastOp, pushed>>
    /\ UNCHANGED pageVars

\* samplesParser_decode of the buffer encode returned
DecodeEncoded ==
    /\ phase = "encoded"
    /\ encoded.err = NoError
    /\ \E run \in {DecodeRun(encoded.bytes)} :
          /\ buffer' = PackedDataAfter(encoded.bytes, run.d)
          /\ decoded' = run.result
    /\ phase' = "decoded"
    /\ UNCHANGED <<pack, encoded, event, eventData, eventOut, builder, lastOp, pushed>>
    /\ UNCHANGED pageVars

\* the length of the fixed prefix: header, page ids, offset table
PrefixLen == 16 + 2 * NUM_PAGES + 2 * NUM_PAGES * LOOPS_PER_PAGE

\* samplesParser_decode of the encoded buffer without its last k bytes
DecodeTruncated(k) ==
    /\ phase = "encoded"
    /\ encoded.err = NoError
    /\ Len(encoded.bytes) - PrefixLen <= MaxTruncSeg
    /\ k \in 1..(Len(encoded.bytes) - PrefixLen)
    /\ LET packedData == SubSeq(encoded.bytes, 1, Len(encoded.bytes) - k)
       IN  \E run \in {DecodeRun(packedData)} :
               /\ buffer' = PackedDataAfter(packedData, run.d)
               /\ decoded' = run.result
    /\ phase' = "decoded"
    /\ UNCHANGED <<pack, encoded, event, eventData, eventOut, builder, lastOp, pushed>>
    /\ UNCHANGED pageVars

\* buffer lengths below the fixed prefix
ShortLengths == {0, 1, 3, 4, 15, 16, 17, 35, 36, 37, 334, 335}

\* samplesParser_decode of the first n bytes of the encoded buffer
DecodePrefix(n) ==
    /\ phase = "encoded"
    /\ encoded.err = NoError
    /\ Len(encoded.bytes) - PrefixLen <= MaxTruncSeg
    /\ n \in ShortLengths
    /\ LET packedData == SubSeq(encoded.bytes, 1, n)
       IN  \E run \in {DecodeRun(packedData)} :
               /\ buffer' = PackedDataAfter(packedData, run.d)
               /\ decoded' = run.result
    /\ phase' = "decoded"
    /\ UNCHANGED <<pack, encoded, event, eventData, eventOut, builder, lastOp, pushed>>
    /\ UNCHANGED pageVars

\* byte offsets a received buffer is altered at: the low byte of the
\* offset-table entries of Positions, the first bytes of the loop data
\* (length_beats, event count, note byte, packed byte of the first record)
AlteredOffsets ==
    {PrefixLen - 2 * NUM_PAGES * LOOPS_PER_PAGE + 2 * (LOOPS_PER_PAGE * pos[1] + pos[2]) :
        pos \in Positions} \cup {PrefixLen, PrefixLen + 1, PrefixLen + 2, PrefixLen + 3}

AlteredBytes == {0, 7, 255}

\* samplesParser_decode of the encoded buffer with the byte at offset off set to v
DecodeAltered(off, v) ==
    /\ phase = "encoded"
    /\ encoded.err = NoError
    /\ Len(encoded.bytes) - PrefixLen <= MaxTruncSeg
    /\ off < Len(encoded.bytes)
    /\ encoded.bytes[off + 1] # v
    /\ LET packedData == [encoded.bytes EXCEPT ![off + 1] = v]
       IN  \E run \in {DecodeRun(packedData)} :
               /\ buffer' = PackedDataAfter(packedData, run.d)
               /\ decoded' = run.result
    /\ phase' = "decoded"
    /\ UNCHANGED <<pack, encoded, event, eventData, eventOut, builder, lastOp, pushed>>
    /\ UNCHANGED pageVars

\* bytes that follow the encoded buffer in a received one
ExtraBytes == {<<0>>, <<255, 255>>, <<4, 1, 60, 228, 0, 0>>}

\* samplesParser_decode of the encoded buffer followed by extra bytes
DecodeExtended(extra) ==
    /\ phase = "encoded"
    /\ encoded.err = NoError
    /\ Len(encoded.bytes) - PrefixLen <= MaxTruncSeg
    /\ LET packedData == encoded.bytes \o extra
       IN  \E run \in {DecodeRun(packedData)} :
               /\ buffer' = PackedDataAfter(packedData, run.d)
               /\ decoded' = run.result
    /\ phase' = "decoded"
    /\ UNCHANGED <<pack, encoded, event, eventData, eventOut, builder, lastOp, pushed>>
    /\ UNCHANGED pageVars

Next ==
    \/ Encode
    \/ DecodeEncoded
    \/ \E k \in 1..MaxTruncSeg : DecodeTruncated(k)
    \/ \E n \in ShortLengths : DecodePrefix(n)
    \/ \E off \in AlteredOffsets : \E v \in AlteredBytes : DecodeAltered(off, v)
    \/ \E extra \in ExtraBytes : DecodeExtended(extra)

Spec == Init /\ [][Next]_vars

\* ------------------------------------------------------------------------
\* One event through the bodies of the two event loops
\* ------------------------------------------------------------------------
InitEvent ==
    /\ pack = NoPack
    /\ phase = "input"
    /\ encoded = NoEncoded
    /\ buffer = <<>>
    /\ decoded = NoDecoded
    /\ event \in EventInputs
    /\ eventData = NewByteArray
    /\ eventOut = NoEventOut
    /\ builder = NewByteArray
    /\ lastOp = NoOp
    /\ pushed = NoPushed
    /\ PageLoaded

\* the encoder's event-loop body on an empty loopData
EncodeOneEvent ==
    /\ phase = "input"
    /\ eventData' = EncodeEvent(NewByteArray, event)
    /\ phase' = "encoded"
    /\ UNCHANGED <<pack, encoded, buffer, decoded, event, eventOut, builder, lastOp, pushed>>
    /\ UNCHANGED pageVars

\* the decoder's event-loop body on the bytes the encoder wrote
DecodeOneEvent ==
    /\ phase = "encoded"
    /\ eventData.err = NoError
    /\ eventOut' = DecodeEvent(ByteArrayFrom(Uint8ArrayFrom(eventData.data)))
    /\ phase' = "decoded"
    /\ UNCHANGED <<pack, encoded, buffer, decoded, event, eventData, builder, lastOp, pushed>>
    /\ UNCHANGED pageVars

NextEvent ==
    \/ EncodeOneEvent
    \/ DecodeOneEvent

SpecEvent == InitEvent /\ [][NextEvent]_vars

\* ------------------------------------------------------------------------
\* The ByteArray builder on its own
\* ------------------------------------------------------------------------
\* writes are tried while the builder holds fewer bytes than this
MaxBuilderLen == 5

Push8Values == {-1, 0, 127, 255, 256}

Push16Values == {-1, 0, 255, 256, 65535, 65536}

\* -1, 0, 0xFFFF, 0x12345678, 0x80000000, 0xFFFFFFFF, 0x100000000
Push32Values ==
    {Wide(-1, 65535), Wide(0, 0), Wide(0, 65535), Wide(4660, 22136), Wide(32768, 0),
     Wide(65535, 65535), Wide(65536, 0)}

\* the record of writes after a push that left the builder as r: a push that
\* threw is not recorded, a push on an empty builder starts a new record
AfterPush(r, op, value) ==
    IF r.err # NoError THEN pushed
    ELSE IF builder.data = <<>>
    THEN [values |-> <<[op |-> op, value |-> value]>>, next |-> 0, inOrder |-> TRUE]
    ELSE IF pushed.inOrder
    THEN [pushed EXCEPT !.values = Append(@, [op |-> op, value |-> value])]
    ELSE pushed

\* the pop that reads back what a push wrote
PopOf(op) ==
    CASE op = "push8" -> "pop8"
      [] op = "push16" -> "pop16"
      [] op = "push32" -> "pop32"

\* the record of writes after a pop that left the cursor as r.b: a pop that
\* threw changes nothing, a pop of the width of the next value written reads
\* that value back, any other pop ends the read-back
AfterPop(r, op) ==
    IF r.b.err # NoError THEN pushed
    ELSE IF /\ pushed.inOrder
            /\ pushed.next < Len(pushed.values)
            /\ PopOf(pushed.values[pushed.next + 1].op) = op
    THEN [values |-> SubSeq(pushed.values, pushed.next + 1, Len(pushed.values)),
          next |-> 1, inOrder |-> TRUE]
    ELSE [values |-> <<>>, next |-> 0, inOrder |-> FALSE]

InitBuilder ==
    /\ pack = NoPack
    /\ phase = "builder"
    /\ encoded = NoEncoded
    /\ buffer = <<>>
    /\ decoded = NoDecoded
    /\ event = NoEvent
    /\ eventData = NewByteArray
    /\ eventOut = NoEventOut
    /\ builder = NewByteArray
    /\ lastOp = NoOp
    /\ pushed = NoPushed
    /\ PageLoaded

\* builder.push8(value); a throw is caught by the caller and the builder lives on
Push8(value) ==
    /\ phase = "builder"
    /\ Len(builder.data) < MaxBuilderLen
    /\ LET r == push8(builder, value)
       IN  /\ builder' = [r EXCEPT !.err = NoError]
           /\ lastOp' = [op |-> "push8", value |-> value, err |-> r.err,
                         before |-> builder.data]
           /\ pushed' = AfterPush(r, "push8", value)
    /\ UNCHANGED <<pack, phase, encoded, buffer, decoded, event, eventData, eventOut>>
    /\ UNCHANGED pageVars

\* builder.push16(value)
Push16(value) ==
    /\ phase = "builder"
    /\ Len(builder.data) < MaxBuilderLen
    /\ LET r == push16(builder, value)
       IN  /\ builder' = [r EXCEPT !.err = NoError]
           /\ lastOp' = [op |-> "push16", value |-> value, err |-> r.err,
                         before |-> builder.data]
           /\ pushed' = AfterPush(r, "push16", value)
    /\ UNCHANGED <<pack, phase, encoded, buffer, decoded, event, eventData, eventOut>>
    /\ UNCHANGED pageVars

\* builder.push32(value), value a wide number
Push32(value) ==
    /\ phase = "builder"
    /\ Len(builder.data) < MaxBuilderLen
    /\ LET r == push32(builder, value)
       IN  /\ builder' = [r EXCEPT !.err = NoError]
           /\ lastOp' = [op |-> "push32", value |-> value, err |-> r.err,
                         before |-> builder.data]
           /\ pushed' = AfterPush(r, "push32", value)
    /\ UNCHANGED <<pack, phase, encoded, buffer, decoded, event, eventData, eventOut>>
    /\ UNCHANGED pageVars

\* builder.pop8(); a throw is caught by the caller and the builder lives on
Pop8 ==
    /\ phase = "builder"
    /\ \E r \in {pop8(builder)} :
          /\ builder' = [r.b EXCEPT !.err = NoError]
          /\ lastOp' = [op |-> "pop8", value |-> r.v, err |-> r.b.err,
                        before |-> builder.data]
          /\ pushed' = AfterPop(r, "pop8")
    /\ UNCHANGED <<pack, phase, encoded, buffer, decoded, event, eventData, eventOut>>
    /\ UNCHANGED pageVars

\* builder.pop16()
Pop16 ==
    /\ phase = "builder"
    /\ \E r \in {pop16(builder)} :
          /\ builder' = [r.b EXCEPT !.err = NoError]
          /\ lastOp' = [op |-> "pop16", value |-> r.v, err |-> r.b.err,
                        before |-> builder.data]
          /\ pushed' = AfterPop(r, "pop16")
    /\ UNCHANGED <<pack, phase, encoded, buffer, decoded, event, eventData, eventOut>>
    /\ UNCHANGED pageVars

\* builder.pop32(), the value a wide number
Pop32 ==
    /\ phase = "builder"
    /\ \E r \in {pop32(builder)} :
          /\ builder' = [r.b EXCEPT !.err = NoError]
          /\ lastOp' = [op |-> "pop32", value |-> r.v, err |-> r.b.err,
                        before |-> builder.data]
          /\ pushed' = AfterPop(r, "pop32")
    /\ UNCHANGED <<pack, phase, encoded, buffer, decoded, event, eventData, eventOut>>
    /\ UNCHANGED pageVars

NextBuilder ==
    \/ \E value \in Push8Values : Push8(value)
    \/ \E value \in Push16Values : Push16(value)
    \/ \E value \in Push32Values : Push32(value)
    \/ Pop8
    \/ Pop16
    \/ Pop32

SpecBuilder == InitBuilder /\ [][NextBuilder]_vars

\* ------------------------------------------------------------------------
\* Vocabulary of the properties
\* ------------------------------------------------------------------------
Pages == 0..(NUM_PAGES - 1)

Slots == 0..(LOOPS_PER_PAGE - 1)

\* slot s of page p of a pack, both counted from 0
SlotOf(pk, p, s) == LoopAt(pk.pages[p + 1], s)

InWidth32(w) == w[1] \in 0..65535 /\ w[2] \in 0..65535

EventInWidth(e) ==
    /\ e[1] \in 0..65535
    /\ e[2].note \in 0..127
    /\ e[2].velocity \in 0..127
    /\ e[2].state \in 0..1

LoopInWidth(l) ==
    /\ l.length_beats \in 0..255
    /\ Len(l.events) <= 255
    /\ \A i \in 1..Len(l.events) : EventInWidth(l.events[i])

\* 10 pages of 15 slots, every field within its declared width
ValidPack(pk) ==
    /\ InWidth32(pk.reserved0) /\ InWidth32(pk.reserved1)
    /\ InWidth32(pk.reserved2) /\ InWidth32(pk.reserved3)
    /\ Len(pk.pages) = NUM_PAGES
    /\ \A p \in Pages :
          /\ pk.pages[p + 1].id \in 0..65535
          /\ Len(pk.pages[p + 1].loops) = LOOPS_PER_PAGE
          /\ \A s \in Slots : SlotOf(pk, p, s) # Null => LoopInWidth(SlotOf(pk, p, s))

\* the little-endian 16-bit value at byte offset off of a buffer
U16At(bytes, off) == bytes[off + 1] + 256 * bytes[off + 2]

\* the offset-table entry of slot (p, s) in an encoded buffer
OffsetEntry(bytes, p, s) == U16At(bytes, 36 + 2 * (LOOPS_PER_PAGE * p + s))

\* the loop-data bytes of the loops of the flat slots lo..hi
RECURSIVE BytesIn(_, _, _)
BytesIn(pk, lo, hi) ==
    IF lo > hi THEN 0
    ELSE IF lo = hi
    THEN LET l == SlotOf(pk, lo \div LOOPS_PER_PAGE, lo % LOOPS_PER_PAGE)
         IN  IF l = Null THEN 0 ELSE 2 + 4 * Len(l.events)
    ELSE LET mid == (lo + hi) \div 2
         IN  BytesIn(pk, lo, mid) + BytesIn(pk, mid + 1, hi)

\* the bytes of the loops of the slots that precede flat slot k, page-major
BytesBefore(pk, k) == BytesIn(pk, 0, k - 1)

\* encode has run on the pack and returned a buffer
EncodeReturned == pack # NoPack /\ phase # "input" /\ encoded.err = NoError

\* decode has run on the whole buffer encode returned
DecodedWhole == pack # NoPack /\ phase = "decoded" /\ buffer = encoded.bytes

\* decode has run on the encoded buffer cut short
DecodedCut ==
    /\ pack # NoPack /\ phase = "decoded"
    /\ Len(buffer) < Len(encoded.bytes) /\ Len(buffer) >= PrefixLen

\* the set of empty slots of a pack
EmptySlots(pk) == {ps \in Pages \X Slots : SlotOf(pk, ps[1], ps[2]) = Null}

\* ------------------------------------------------------------------------
\* Properties
\* ------------------------------------------------------------------------
\* C1 (as claimed): for every valid pack whose loop-data segment is shorter
\* than 0xFFFF bytes, decode(encode(pack)) succeeds and equals the pack.
C1_RoundTrip ==
    (DecodedWhole /\ ValidPack(pack) /\ getPackSize(pack) < 65535)
        => (decoded.err = NoError /\ decoded.pack = pack)

\* C2 (as claimed): a pack whose empty slots are exactly E encodes and decodes
\* to a pack whose empty slots are exactly E.
C2_SentinelCorrectness ==
    (DecodedWhole /\ ValidPack(pack))
        => (decoded.err = NoError /\ EmptySlots(decoded.pack) = EmptySlots(pack))

\* C3 (as claimed): encoding generateDummySamples and decoding the result
\* succeeds and reproduces every loop at its page and slot, event for event.
C3_ReferenceFixture ==
    (DecodedWhole /\ pack = generateDummySamples)
        => /\ decoded.err = NoError
           /\ \A p \in Pages : \A s \in Slots :
                 SlotOf(pack, p, s) # Null
                     => SlotOf(decoded.pack, p, s) = SlotOf(pack, p, s)

\* C4 (as claimed): for every valid pack, encode returns a buffer of
\* 336 + getPackSize(pack) bytes.
C4_SizeAgreementAllValid ==
    (pack # NoPack /\ phase # "input" /\ ValidPack(pack))
        => (encoded.err = NoError /\ Len(encoded.bytes) = 336 + getPackSize(pack))

\* C4 (amended): for every valid pack that encode accepts, the buffer it
\* returns is 336 + getPackSize(pack) bytes long.
C4_SizeAgreement ==
    (EncodeReturned /\ ValidPack(pack))
        => Len(encoded.bytes) = 336 + getPackSize(pack)

\* a valid pack with a loop that has events, encoded into a buffer
C4_Witness ==
    /\ EncodeReturned /\ ValidPack(pack)
    /\ getPackSize(pack) > 2
    /\ Len(encoded.bytes) = 336 + getPackSize(pack)

\* C5 (as claimed): for every valid pack, decode of the encoded buffer with
\* its last k bytes removed, 1 <= k <= length of the loop-data segment, fails
\* with an underflow error and returns no pack.
C5_TruncationFailsClosed ==
    (DecodedCut /\ ValidPack(pack))
        => (decoded.err = RangeError /\ decoded.pack = NoPack)

\* C6: in every buffer encode returns, the offset-table entry of a present
\* loop is never 0xFFFF.
C6_SentinelNeverAnOffset ==
    EncodeReturned
        => \A p \in Pages : \A s \in Slots :
              SlotOf(pack, p, s) # Null => OffsetEntry(encoded.bytes, p, s) # 65535

\* a buffer returned for a pack whose last present loop starts 65408 bytes into
\* the loop data, above every other 16-bit offset a 255-event loop can follow
C6_Witness ==
    /\ EncodeReturned
    /\ \E p \in Pages : \E s \in Slots :
          /\ SlotOf(pack, p, s) # Null
          /\ OffsetEntry(encoded.bytes, p, s) = 65408

\* C7: when 0xFFFF or more loop-data bytes precede a present loop, encode
\* fails and returns no buffer.
C7_CapacityExceededReported ==
    (/\ pack # NoPack /\ phase # "input"
     /\ getPackSize(pack) >= 65535
     /\ \E k \in 0..(NUM_PAGES * LOOPS_PER_PAGE - 1) :
           /\ SlotOf(pack, k \div LOOPS_PER_PAGE, k % LOOPS_PER_PAGE) # Null
           /\ BytesBefore(pack, k) >= 65535)
        => (encoded.err # NoError /\ encoded.bytes = <<>>)

\* encode has failed on a valid pack whose 66th loop would start at 66430
C7_Witness ==
    /\ pack # NoPack /\ phase = "encoded"
    /\ ValidPack(pack)
    /\ SlotOf(pack, 4, 5) # Null
    /\ BytesBefore(pack, 65) = 66430
    /\ encoded.err = RangeError

\* C8: an event with note and velocity in 0..255 (state 0 or 1, tick in
\* 0..65535) is encoded without error, and decoding its bytes gives the note
\* and the velocity modulo 128, the same state and the same tick.
C8_MaskingBoundaries ==
    (/\ pack = NoPack
     /\ event[2].note \in 0..255 /\ event[2].velocity \in 0..255
     /\ event[2].state \in 0..1 /\ event[1] \in 0..65535)
        => /\ phase # "input" => eventData.err = NoError
           /\ phase = "decoded" =>
                 /\ eventOut.b.err = NoError
                 /\ eventOut.v[2].note = event[2].note % 128
                 /\ eventOut.v[2].velocity = event[2].velocity % 128
                 /\ eventOut.v[2].state = event[2].state
                 /\ eventOut.v[1] = event[1]

\* an event with note 128 and velocity 255 decoded as note 0, velocity 127
C8_Witness ==
    /\ pack = NoPack /\ phase = "decoded"
    /\ event[2].note = 128 /\ event[2].velocity = 255 /\ event[2].state = 0
    /\ eventOut.v[2].note = 0 /\ eventOut.v[2].velocity = 127
    /\ eventOut.v[2].state = 0

\* C9 (as claimed): encoding an event whose state is outside {0, 1} succeeds
\* and writes a packed byte whose velocity bits differ from velocity & 0x7F.
C9_StateCorruptsVelocity ==
    (pack = NoPack /\ phase # "input" /\ event[2].state \notin {0, 1} /\ event[1] \in 0..65535)
        => /\ eventData.err = NoError
           /\ eventData.data[2] % 128 # event[2].velocity % 128

\* C9 (amended): a state outside {0, 1} is caught by the range check of
\* push8 on the packed byte: for every state from -2^24 to 2^24 - 1 other than
\* 0 and 1 the encoding fails with a RangeError, and whenever a packed byte is
\* written its low seven bits are velocity & 0x7F.
C9_StateRejectedByPush8 ==
    (pack = NoPack /\ phase # "input")
        => /\ (/\ event[2].state \notin {0, 1}
               /\ event[2].state >= -16777216 /\ event[2].state < 16777216)
                  => eventData.err = RangeError
           /\ Len(eventData.data) >= 2
                  => eventData.data[2] % 128 = event[2].velocity % 128

\* the encoding of an event with state 2 has failed after the note byte
C9_Witness ==
    /\ pack = NoPack /\ phase = "encoded"
    /\ event[2].state = 2
    /\ eventData.err = RangeError
    /\ Len(eventData.data) = 1

\* there is an event of a present loop whose tick is below 0 or above 65535
HasBadTick(pk) ==
    \E p \in Pages : \E s \in Slots :
        /\ SlotOf(pk, p, s) # Null
        /\ \E i \in 1..Len(SlotOf(pk, p, s).events) :
              SlotOf(pk, p, s).events[i][1] < 0 \/ SlotOf(pk, p, s).events[i][1] > 65535

\* C10: if an event of a present loop has a tick below 0 or above 65535,
\* encode fails with a RangeError and returns no buffer.
C10_TickRangeCheck ==
    (pack # NoPack /\ phase # "input" /\ HasBadTick(pack))
        => (encoded.err = RangeError /\ encoded.bytes = <<>>)

\* encode has failed on a pack whose last loop, in page 9, ends with tick 65536
C10_Witness ==
    /\ pack # NoPack /\ phase = "encoded"
    /\ SlotOf(pack, 9, 14) # Null
    /\ \E i \in 1..Len(SlotOf(pack, 9, 14).events) : SlotOf(pack, 9, 14).events[i][1] = 65536
    /\ encoded.err = RangeError

\* there is a present loop with more than 255 events
HasOverCount(pk) ==
    \E p \in Pages : \E s \in Slots :
        SlotOf(pk, p, s) # Null /\ Len(SlotOf(pk, p, s).events) > 255

\* C11: if a present loop holds more than 255 events, encode fails with a
\* RangeError and returns no buffer.
C11_EventCountRangeCheck ==
    (pack # NoPack /\ phase # "input" /\ HasOverCount(pack))
        => (encoded.err = RangeError /\ encoded.bytes = <<>>)

\* encode has failed on a pack whose loop in slot (7, 0) holds 256 events
C11_Witness ==
    /\ pack # NoPack /\ phase = "encoded"
    /\ SlotOf(pack, 7, 0) # Null
    /\ Len(SlotOf(pack, 7, 0).events) = 256
    /\ encoded.err = RangeError

\* the flat slots 0..149, page-major
FlatSlots == 0..(NUM_PAGES * LOOPS_PER_PAGE - 1)

FlatSlotOf(pk, k) == SlotOf(pk, k \div LOOPS_PER_PAGE, k % LOOPS_PER_PAGE)

\* C12: decode of any buffer either fails with a RangeError and returns no
\* pack, or returns a pack in which every present loop has as many events as
\* the count byte read for it (the second byte of its record, the records
\* following one another from byte 336); a buffer shorter than 336 bytes is
\* rejected.
C12_DecodeFailsClosed ==
    (pack # NoPack /\ phase = "decoded")
        => /\ \/ decoded.err = RangeError /\ decoded.pack = NoPack
              \/ /\ decoded.err = NoError
                 /\ \A k \in FlatSlots :
                       FlatSlotOf(decoded.pack, k) # Null
                           => /\ PrefixLen + BytesBefore(decoded.pack, k) + 2 <= Len(buffer)
                              /\ buffer[PrefixLen + BytesBefore(decoded.pack, k) + 2]
                                    = Len(FlatSlotOf(decoded.pack, k).events)
           /\ Len(buffer) < PrefixLen => decoded.err = RangeError

\* decode has accepted a buffer whose first count byte was altered
C12_Witness ==
    /\ pack # NoPack /\ phase = "decoded"
    /\ decoded.err = NoError
    /\ Len(buffer) = Len(encoded.bytes)
    /\ Len(buffer) > PrefixLen + 1
    /\ buffer[PrefixLen + 2] # encoded.bytes[PrefixLen + 2]
    /\ FlatSlotOf(decoded.pack, 0) # Null

\* C13: in every buffer encode returns, the offset entry of an empty slot is
\* 0xFFFF, and the entry of a present slot is the number of loop-data bytes
\* of the present loops before it (2 + 4 * eventCount each), which is where
\* its length_beats byte lies relative to byte 336.
C13_OffsetTableContent ==
    EncodeReturned
        => \A k \in FlatSlots :
              LET l == FlatSlotOf(pack, k)
                  entry == U16At(encoded.bytes, 36 + 2 * k)
              IN  IF l = Null
                  THEN entry = 65535
                  ELSE /\ entry = BytesBefore(pack, k)
                       /\ encoded.bytes[PrefixLen + entry + 1] = l.length_beats

\* encode has returned a buffer for a pack whose last slot is present and
\* preceded by another present loop
C13_Witness ==
    /\ EncodeReturned
    /\ FlatSlotOf(pack, 149) # Null
    /\ BytesBefore(pack, 149) > 0
    /\ EmptySlots(pack) # {}

\* the four bytes of a wide number, least significant first
WideBytes(w) == <<w[2] % 256, w[2] \div 256, w[1] % 256, w[1] \div 256>>

\* C14: every buffer encode returns has at least 336 bytes; bytes 0..15 are
\* reserved0..reserved3 as little-endian 32-bit words, bytes 16..35 the ids
\* of pages 0..9 as little-endian 16-bit values, bytes 36..335 the 150 offset
\* entries (each the sentinel or a position inside the loop-data segment),
\* and the loop-data segment starts at byte 336.
C14_FixedPrefixLayout ==
    EncodeReturned
        => /\ Len(encoded.bytes) >= PrefixLen
           /\ SubSeq(encoded.bytes, 1, 4) = WideBytes(pack.reserved0)
           /\ SubSeq(encoded.bytes, 5, 8) = WideBytes(pack.reserved1)
           /\ SubSeq(encoded.bytes, 9, 12) = WideBytes(pack.reserved2)
           /\ SubSeq(encoded.bytes, 13, 16) = WideBytes(pack.reserved3)
           /\ \A p \in Pages : U16At(encoded.bytes, 16 + 2 * p) = pack.pages[p + 1].id
           /\ \A k \in FlatSlots :
                 \/ U16At(encoded.bytes, 36 + 2 * k) = 65535
                 \/ PrefixLen + U16At(encoded.bytes, 36 + 2 * k) < Len(encoded.bytes)
           /\ Len(encoded.bytes) = PrefixLen + BytesBefore(pack, NUM_PAGES * LOOPS_PER_PAGE)
           /\ \A k \in FlatSlots :
                 (FlatSlotOf(pack, k) # Null /\ BytesBefore(pack, k) = 0)
                     => encoded.bytes[PrefixLen + 1] = FlatSlotOf(pack, k).length_beats

\* encode has returned a buffer for a pack with a loop, reserved words whose
\* four bytes differ and page ids whose two bytes differ
C14_Witness ==
    /\ EncodeReturned
    /\ pack.reserved2 = Wide(4660, 22136)
    /\ pack.pages[2].id = 65280 - 257
    /\ Len(encoded.bytes) > PrefixLen

\* the four bytes the format gives an event
EventBytes(e) ==
    <<BitAnd(e[2].note, 127), e[2].state * 128 + BitAnd(e[2].velocity, 127),
      e[1] % 256, e[1] \div 256>>

\* the record the format gives a loop: length_beats, the event count, the events
LoopRecordAt(bytes, at, l) ==
    /\ at + 2 + 4 * Len(l.events) <= Len(bytes)
    /\ bytes[at + 1] = l.length_beats
    /\ bytes[at + 2] = Len(l.events)
    /\ \A i \in 1..Len(l.events) :
          SubSeq(bytes, at + 4 * i - 1, at + 4 * i + 2) = EventBytes(l.events[i])

\* C15: in a buffer encode returns, every present loop with in-range fields
\* is the record length_beats, N, then per event note & 0x7F,
\* state * 128 + (velocity & 0x7F), tick mod 256, tick div 256, in list order,
\* placed right after the records of the present loops before it; empty
\* slots add nothing, so the segment is exactly these records.
C15_LoopRecordLayout ==
    EncodeReturned
        => /\ \A k \in FlatSlots :
                 (FlatSlotOf(pack, k) # Null /\ LoopInWidth(FlatSlotOf(pack, k)))
                     => LoopRecordAt(encoded.bytes, PrefixLen + BytesBefore(pack, k),
                                     FlatSlotOf(pack, k))
           /\ Len(encoded.bytes) - PrefixLen
                 = BytesBefore(pack, NUM_PAGES * LOOPS_PER_PAGE)

\* encode has returned a buffer for a pack with an empty slot between two
\* present loops, the later one with two events
C15_Witness ==
    /\ EncodeReturned
    /\ FlatSlotOf(pack, 0) # Null
    /\ FlatSlotOf(pack, 1) = Null
    /\ FlatSlotOf(pack, 10) # Null
    /\ LoopInWidth(FlatSlotOf(pack, 10))
    /\ Len(FlatSlotOf(pack, 10).events) = 2

\* decode has accepted the buffer it was given
DecodeAccepted == pack # NoPack /\ phase = "decoded" /\ decoded.err = NoError

\* C16: in every pack decode returns, slot s of page p is empty exactly when
\* offset-table entry 15 * p + s of the buffer is 0xFFFF, for every p in 0..9
\* and s in 0..14.
C16_DecoderPresenceMapping ==
    DecodeAccepted
        => \A p \in Pages : \A s \in Slots :
              (SlotOf(decoded.pack, p, s) = Null) <=> (OffsetEntry(buffer, p, s) = 65535)

\* buffers a and b are identical except that non-sentinel offset-table
\* entries may carry different non-sentinel values
SameButOffsets(a, b) ==
    /\ Len(a) = Len(b)
    /\ Len(a) >= PrefixLen
    /\ \A i \in 1..Len(a) : (i <= 36 \/ i > PrefixLen) => a[i] = b[i]
    /\ \A k \in FlatSlots :
          \/ U16At(a, 36 + 2 * k) = U16At(b, 36 + 2 * k)
          \/ U16At(a, 36 + 2 * k) # 65535 /\ U16At(b, 36 + 2 * k) # 65535

\* C17: a buffer that differs from the encoded buffer only in the values of
\* non-sentinel offset-table entries (still not 0xFFFF) decodes to the same
\* outcome as the encoded buffer: the same pack, or an error in both cases.
C17_OffsetValuesNotConsulted ==
    (pack # NoPack /\ phase = "decoded" /\ SameButOffsets(buffer, encoded.bytes))
        => decoded = samplesParser_decode(encoded.bytes)

\* decode has accepted a buffer in which only the value of a non-sentinel
\* offset entry was altered, and returned a pack with a loop
C17_Witness ==
    /\ DecodeAccepted
    /\ buffer # encoded.bytes
    /\ SameButOffsets(buffer, encoded.bytes)
    /\ \E k \in FlatSlots : FlatSlotOf(decoded.pack, k) # Null

\* a decoded loop: a length byte and a list of events of decoded fields
IsDecodedLoop(l) ==
    /\ DOMAIN l = {"length_beats", "events"}
    /\ l.length_beats \in 0..255
    /\ Len(l.events) \in 0..255
    /\ \A i \in 1..Len(l.events) : EventInWidth(l.events[i])

\* C18: every pack decode returns has exactly 10 pages, and every page has
\* exactly 15 slots, each empty or a loop, whatever the bytes given were.
C18_StructuralConstants ==
    DecodeAccepted
        => /\ Len(decoded.pack.pages) = NUM_PAGES
           /\ \A p \in Pages :
                 /\ Len(decoded.pack.pages[p + 1].loops) = LOOPS_PER_PAGE
                 /\ \A s \in Slots :
                       \/ SlotOf(decoded.pack, p, s) = Null
                       \/ IsDecodedLoop(SlotOf(decoded.pack, p, s))

\* decode has returned a pack with empty and present slots from a buffer that
\* is not the one encode returned
C18_Witness ==
    /\ DecodeAccepted
    /\ buffer # encoded.bytes
    /\ EmptySlots(decoded.pack) # {}
    /\ \E k \in FlatSlots : FlatSlotOf(decoded.pack, k) # Null

\* b is a buffer the decode actions hand to samplesParser_decode: the encoded
\* buffer, a prefix of it, the encoded buffer followed by extra bytes, or the
\* encoded buffer with one byte altered
IsDecodeInput(b) ==
    \/ Len(b) <= Len(encoded.bytes) /\ b = SubSeq(encoded.bytes, 1, Len(b))
    \/ /\ Len(b) > Len(encoded.bytes)
       /\ SubSeq(b, 1, Len(encoded.bytes)) = encoded.bytes
       /\ SubSeq(b, Len(encoded.bytes) + 1, Len(b)) \in ExtraBytes
    \/ /\ Len(b) = Len(encoded.bytes)
       /\ Cardinality({i \in 1..Len(b) : b[i] # encoded.bytes[i]}) = 1

C20_BuilderWriteRangeCheck ==
    /\ lastOp.op = "push8"
          => IF lastOp.value < 0 \/ lastOp.value > 255
             THEN lastOp.err = RangeError /\ builder.data = lastOp.before
             ELSE /\ lastOp.err = NoError
                  /\ builder.data = lastOp.before \o <<lastOp.value>>
    /\ lastOp.op = "push16"
          => IF lastOp.value < 0 \/ lastOp.value > 65535
             THEN lastOp.err = RangeError /\ builder.data = lastOp.before
             ELSE /\ lastOp.err = NoError
                  /\ builder.data
                        = lastOp.before \o <<lastOp.value % 256, lastOp.value \div 256>>
    /\ lastOp.op = "push32"
          => IF lastOp.value[1] < 0 \/ lastOp.value[1] > 65535
             THEN lastOp.err = RangeError /\ builder.data = lastOp.before
             ELSE /\ lastOp.err = NoError
                  /\ builder.data = lastOp.before \o WideBytes(lastOp.value)

\* push16 has appended the two bytes of 65535 to a builder that already held
\* bytes
C20_Witness ==
    /\ lastOp.op = "push16"
    /\ lastOp.value = 65535
    /\ lastOp.err = NoError
    /\ Len(lastOp.before) >= 1
    /\ Len(builder.data) = Len(lastOp.before) + 2

\* the operation that ran last is a pop
LastIsPop == lastOp.op \in {"pop8", "pop16", "pop32"}

\* C21: when the in-range values pushed on an empty builder are read back by
\* pops of the same widths in the same order, every pop returns the value
\* pushed, 32-bit values of 2^31 and above included (as non-negative numbers).
C21_BuilderRoundTrip ==
    (LastIsPop /\ lastOp.err = NoError /\ pushed.inOrder /\ pushed.next >= 1)
        => /\ PopOf(pushed.values[pushed.next].op) = lastOp.op
           /\ lastOp.value = pushed.values[pushed.next].value
           /\ lastOp.op = "pop32" => lastOp.value[1] >= 0

\* 0x80000000 has been read back by pop32 while a value pushed after it is
\* still to be read
C21_Witness ==
    /\ lastOp.op = "pop32"
    /\ lastOp.err = NoError
    /\ pushed.inOrder
    /\ pushed.next = 1
    /\ Len(pushed.values) >= 2
    /\ pushed.values[1].value = Wide(32768, 0)
    /\ lastOp.value = Wide(32768, 0)

\* the number of bytes a pop of the given name reads
PopWidth(op) ==
    CASE op = "pop8" -> 1
      [] op = "pop16" -> 2
      [] op = "pop32" -> 4

\* C22: pop8, pop16 and pop32 throw exactly when fewer than 1, 2 and 4 bytes
\* remain, and otherwise remove exactly that many bytes from the front.
C22_CursorUnderflow ==
    LastIsPop
        => IF Len(lastOp.before) < PopWidth(lastOp.op)
           THEN lastOp.err = RangeError
           ELSE /\ lastOp.err = NoError
                /\ builder.data
                      = SubSeq(lastOp.before, PopWidth(lastOp.op) + 1, Len(lastOp.before))

\* pop16 has read the only two bytes of the builder
C22_Witness ==
    /\ lastOp.op = "pop16"
    /\ Len(lastOp.before) = 2
    /\ lastOp.err = NoError
    /\ builder.data = <<>>

\* C28: a push that throws leaves the builder's bytes as they were, and a pop
\* that throws consumes no byte, so a narrower pop can still read the bytes
\* that remain.
C28_FailedOperationsChangeNothing ==
    lastOp.err = RangeError
        => /\ builder.data = lastOp.before
           /\ (LastIsPop /\ Len(lastOp.before) >= 1)
                 => /\ pop8(builder).b.err = NoError
                    /\ pop8(builder).v = lastOp.before[1]
           /\ (lastOp.op = "pop32" /\ Len(lastOp.before) >= 2)
                 => /\ pop16(builder).b.err = NoError
                    /\ pop16(builder).v = lastOp.before[1] + 256 * lastOp.before[2]

\* pop32 has thrown on a builder of three bytes
C28_Witness ==
    /\ lastOp.op = "pop32"
    /\ lastOp.err = RangeError
    /\ Len(lastOp.before) = 3

\* some present loop of the pack would start at an offset above 0xFFFF
StartsAboveCapacity(pk) ==
    \E k \in FlatSlots : FlatSlotOf(pk, k) # Null /\ BytesBefore(pk, k) > 65535

\* what encode reports for a pack whose only fault is a tick of 66430
OutOfWidthError == samplesParser_encode(BadTickPack(<<0, 0>>, 0, 66430)).err

\* C23: when encode fails because a loop would start beyond the 16-bit offset
\* field, the error it reports differs from the error it reports for a field
\* value outside its width.
C23_TwoErrorKinds ==
    (pack # NoPack /\ phase # "input" /\ ValidPack(pack) /\ StartsAboveCapacity(pack))
        => /\ encoded.err # NoError
           /\ encoded.err # OutOfWidthError

\* C25: for a valid pack, encode fails exactly when some present loop would
\* start at an offset above 0xFFFF; a pack whose last present loop starts
\* below 0xFFFF is encoded even when the segment is 0xFFFF bytes or longer.
C25_CapacityPerLoopStart ==
    (pack # NoPack /\ phase # "input" /\ ValidPack(pack))
        => (encoded.err # NoError <=> StartsAboveCapacity(pack))

\* encode has returned a buffer with a loop-data segment of 66430 bytes, the
\* last loop starting at 65408
C25_Witness ==
    /\ EncodeReturned
    /\ ValidPack(pack)
    /\ FlatSlotOf(pack, 64) # Null
    /\ BytesBefore(pack, 64) = 65408
    /\ Len(encoded.bytes) - PrefixLen = 66430

\* C24: in every pack decode returns, whatever the bytes were, every event
\* has note and velocity in 0..127, state in {0, 1} and tick in 0..65535,
\* every loop has length_beats in 0..255 and at most 255 events, every page
\* id is in 0..65535 and every reserved word is in 0..2^32-1.
C24_DecodedFieldRanges ==
    DecodeAccepted
        => /\ InWidth32(decoded.pack.reserved0) /\ InWidth32(decoded.pack.reserved1)
           /\ InWidth32(decoded.pack.reserved2) /\ InWidth32(decoded.pack.reserved3)
           /\ \A p \in Pages : decoded.pack.pages[p + 1].id \in 0..65535
           /\ \A k \in FlatSlots :
                 LET l == FlatSlotOf(decoded.pack, k)
                 IN  l # Null
                       => /\ l.length_beats \in 0..255
                          /\ Len(l.events) <= 255
                          /\ \A i \in 1..Len(l.events) :
                                /\ l.events[i][1] \in 0..65535
                                /\ l.events[i][2].note \in 0..127
                                /\ l.events[i][2].velocity \in 0..127
                                /\ l.events[i][2].state \in {0, 1}

\* decode has returned note 127 for a note byte altered to 255, in a pack
\* whose reserved words have bit 31 set
C24_Witness ==
    /\ DecodeAccepted
    /\ Len(buffer) > PrefixLen + 2
    /\ buffer[PrefixLen + 3] = 255
    /\ FlatSlotOf(decoded.pack, 0) # Null
    /\ Len(FlatSlotOf(decoded.pack, 0).events) >= 1
    /\ FlatSlotOf(decoded.pack, 0).events[1][2].note = 127
    /\ decoded.pack.reserved0[1] >= 32768

\* some page of the pack has a loops list of fewer than 15 entries
HasShortPage(pk) == \E p \in Pages : Len(pk.pages[p + 1].loops) < LOOPS_PER_PAGE

\* the pack with every loops list padded with empty slots up to 15 entries
Padded(pk) ==
    [pk EXCEPT !.pages =
        [pg \in 1..NUM_PAGES |->
            [pk.pages[pg] EXCEPT !.loops =
                [sl \in 1..LOOPS_PER_PAGE |->
                    IF sl <= Len(pk.pages[pg].loops) THEN pk.pages[pg].loops[sl] ELSE Null]]]]

\* C26: for a pack with a loops list of fewer than 15 entries, encode gives
\* what it gives for the same pack padded with empty slots (0xFFFF for every
\* missing slot and no loop data), and getPackSize gives the same value.
C26_ShortSlotLists ==
    (pack # NoPack /\ phase # "input" /\ HasShortPage(pack))
        => /\ encoded = samplesParser_encode(Padded(pack))
           /\ getPackSize(pack) = getPackSize(Padded(pack))
           /\ encoded.err = NoError
                 => \A p \in Pages : \A s \in Slots :
                       s >= Len(pack.pages[p + 1].loops)
                           => OffsetEntry(encoded.bytes, p, s) = 65535

\* encode has returned a buffer for a pack whose page 1 lists one loop only
\* and whose page 0 has a loop
C26_Witness ==
    /\ EncodeReturned
    /\ Len(pack.pages[2].loops) = 1
    /\ pack.pages[2].loops[1] # Null
    /\ SlotOf(pack, 0, 0) # Null
    /\ Len(pack.pages[1].loops) = LOOPS_PER_PAGE

\* the buffer decode was given is the encoded buffer followed by extra bytes
DecodedExtended ==
    /\ pack # NoPack /\ phase = "decoded"
    /\ Len(buffer) > Len(encoded.bytes)
    /\ SubSeq(buffer, 1, Len(encoded.bytes)) = encoded.bytes

\* C27: when decode accepts the encoded buffer, it also accepts that buffer
\* followed by extra bytes and returns the same pack.
C27_TrailingBytesIgnored ==
    (DecodedExtended /\ samplesParser_decode(encoded.bytes).err = NoError)
        => decoded = samplesParser_decode(encoded.bytes)

\* decode has returned a pack with a loop from a buffer with six extra bytes
C27_Witness ==
    /\ DecodedExtended
    /\ Len(buffer) = Len(encoded.bytes) + 6
    /\ samplesParser_decode(encoded.bytes).err = NoError
    /\ decoded.err = NoError
    /\ \E k \in FlatSlots : FlatSlotOf(decoded.pack, k) # Null

\* ------------------------------------------------------------------------
\* The device-utility page: the updater scene and deviceUpdateScript
\* ------------------------------------------------------------------------

\* the versions imageManager.getFirmwareVersion() may report
DeviceVersions == {1, 2, 3}

\* what parseChangelog returns for the changelog the site serves: a beta on
\* top of a release on top of an older release
Changelog ==
    [release |-> 2, dev |-> 3,
     versions |-> << [version |-> 3, isDev |-> TRUE, isObsolete |-> FALSE],
                     [version |-> 2, isDev |-> FALSE, isObsolete |-> FALSE],
                     [version |-> 1, isDev |-> FALSE, isObsolete |-> FALSE] >>]

\* imageIsNewer(current, candidate), as updateAvailableUpdate reads it:
\* isNewerThanDevice = imageIsNewer(deviceFirmwareVersion, version.version)
imageIsNewer(current, candidate) == candidate > current

\* the versions the forEach of updateAvailableUpdate does not skip
Listed(version, advanced) ==
    ~ ((version.isDev /\ ~ advanced) \/ version.isObsolete)

hasNewRelease(advanced, log, device) ==
    \E i \in DOMAIN log.versions :
        /\ Listed(log.versions[i], advanced)
        /\ imageIsNewer(device, log.versions[i].version)

hasDowngrade(advanced, log, device) ==
    ~ \E i \in DOMAIN log.versions :
        /\ Listed(log.versions[i], advanced)
        /\ \/ imageIsNewer(device, log.versions[i].version)
           \/ device = log.versions[i].version

\* updateAvailableUpdate(): the view the updater scene shows after the call
updateAvailableUpdate(scene, advanced, log, device) ==
    IF device = NoVersion \/ log = NoChangelog THEN scene
    ELSE IF hasNewRelease(advanced, log, device) THEN "update-available"
    ELSE IF hasDowngrade(advanced, log, device) THEN "downgrade-available"
    ELSE "updated"

\* a promise that an event delivered before its creation has settled
waitForUpdateAppliedRemembered(delivered) ==
    IF delivered THEN "verifying" ELSE "applying"

\* waitForUpdateApplied is created pending when the upload has completed,
\* whether or not a connection-reestablished event was delivered before
waitForUpdateApplied(delivered) == "applying"

\* the stages at whose await a call of deviceUpdateScript is suspended
Suspended == {"fetch", "uploading", "applying", "verifying", "done"}

\* the awaits of deviceUpdateScript that can reject: the fetch, the upload
\* and getFirmwareVersion
Rejecting == {"fetch", "uploading", "verifying"}

InitPage ==
    /\ pack = NoPack
    /\ phase = "page"
    /\ encoded = NoEncoded
    /\ buffer = <<>>
    /\ decoded = NoDecoded
    /\ event = NoEvent
    /\ eventData = NewByteArray
    /\ eventOut = NoEventOut
    /\ builder = NewByteArray
    /\ lastOp = NoOp
    /\ pushed = NoPushed
    /\ PageLoaded

\* mcumgr.onConnect
onConnect ==
    /\ phase = "page"
    /\ mainScene = "disconnected"
    /\ getDeviceFirmwarePending < MaxRequests
    /\ getFirmwareUpdatesPending < MaxRequests
    /\ getDeviceFirmwarePending' = getDeviceFirmwarePending + 1
    /\ getFirmwareUpdatesPending' = getFirmwareUpdatesPending + 1
    /\ mainScene' = "connected"
    /\ UNCHANGED <<updateScene, advancedOptions, firmwareVersions,
                   deviceFirmwareVersion, connectionReestablishedResolver,
                   script, reconnected>>
    /\ UNCHANGED codecVars

\* mcumgr.onDisconnect
onDisconnect ==
    /\ phase = "page"
    /\ mainScene = "connected"
    /\ mainScene' = "disconnected"
    /\ UNCHANGED <<updateScene, advancedOptions, firmwareVersions,
                   deviceFirmwareVersion, connectionReestablishedResolver,
                   getDeviceFirmwarePending, getFirmwareUpdatesPending,
                   script, reconnected>>
    /\ UNCHANGED codecVars

\* mcumgr.onConnectionReestablished: the resolver, when there is one, settles
\* the promise it was created with, and the call of deviceUpdateScript
\* awaiting that promise runs on to its next await
onConnectionReestablished ==
    /\ phase = "page"
    /\ mainScene = "connected"
    /\ updateScene # "updating" => getDeviceFirmwarePending < MaxRequests
    /\ reconnected' = TRUE
    /\ script' = [r \in Runs |->
                    IF script[r].stage # "applying" THEN script[r]
                    ELSE IF connectionReestablishedResolver = r
                    THEN [script[r] EXCEPT !.stage = "verifying", !.fresh = TRUE]
                    ELSE [script[r] EXCEPT !.fresh = TRUE]]
    /\ getDeviceFirmwarePending' =
           IF updateScene # "updating"
           THEN getDeviceFirmwarePending + 1
           ELSE getDeviceFirmwarePending
    /\ UNCHANGED <<mainScene, updateScene, advancedOptions, firmwareVersions,
                   deviceFirmwareVersion, connectionReestablishedResolver,
                   getFirmwareUpdatesPending>>
    /\ UNCHANGED codecVars

\* the change listener of checkboxAdvanced
checkboxAdvancedChange ==
    /\ phase = "page"
    /\ mainScene = "connected"
    /\ advancedOptions' = ~ advancedOptions
    /\ updateScene' = updateAvailableUpdate(updateScene, advancedOptions',
                                            firmwareVersions,
                                            deviceFirmwareVersion)
    /\ UNCHANGED <<mainScene, firmwareVersions, deviceFirmwareVersion,
                   connectionReestablishedResolver, getDeviceFirmwarePending,
                   getFirmwareUpdatesPending, script, reconnected>>
    /\ UNCHANGED codecVars

\* getFirmwareUpdates() from its await on
getFirmwareUpdates ==
    /\ phase = "page"
    /\ getFirmwareUpdatesPending > 0
    /\ getFirmwareUpdatesPending' = getFirmwareUpdatesPending - 1
    /\ firmwareVersions' = Changelog
    /\ updateScene' = updateAvailableUpdate(updateScene, advancedOptions,
                                            firmwareVersions',
                                            deviceFirmwareVersion)
    /\ UNCHANGED <<mainScene, advancedOptions, deviceFirmwareVersion,
                   connectionReestablishedResolver, getDeviceFirmwarePending,
                   script, reconnected>>
    /\ UNCHANGED codecVars

\* getDeviceFirmware() from its await on
getDeviceFirmware(fw) ==
    /\ phase = "page"
    /\ getDeviceFirmwarePending > 0
    /\ getDeviceFirmwarePending' = getDeviceFirmwarePending - 1
    /\ deviceFirmwareVersion' = fw
    /\ updateScene' = updateAvailableUpdate(updateScene, advancedOptions,
                                            firmwareVersions,
                                            deviceFirmwareVersion')
    /\ UNCHANGED <<mainScene, advancedOptions, firmwareVersions,
                   connectionReestablishedResolver, getFirmwareUpdatesPending,
                   script, reconnected>>
    /\ UNCHANGED codecVars

\* a click on one of the update buttons: deviceUpdateScript up to its fetch
StartUpdate(r) ==
    /\ phase = "page"
    /\ mainScene = "connected"
    /\ updateScene \in {"update-available", "downgrade-available"}
    /\ script[r].stage = "idle"
    /\ \A q \in Runs : q < r => script[q].stage # "idle"
    /\ updateScene' = "updating"
    /\ script' = [script EXCEPT ![r] =
                     [stage |-> "fetch",
                      firmwareVersion |-> IF advancedOptions
                                          THEN firmwareVersions.dev
                                          ELSE firmwareVersions.release,
                      early |-> FALSE, fresh |-> FALSE]]
    /\ UNCHANGED <<mainScene, advancedOptions, firmwareVersions,
                   deviceFirmwareVersion, connectionReestablishedResolver,
                   getDeviceFirmwarePending, getFirmwareUpdatesPending,
                   reconnected>>
    /\ UNCHANGED codecVars

\* deviceUpdateScript from the fetched image to uploadImage
FetchDone(r) ==
    /\ phase = "page"
    /\ script[r].stage = "fetch"
    /\ script' = [script EXCEPT ![r].stage = "uploading"]
    /\ UNCHANGED <<mainScene, updateScene, advancedOptions, firmwareVersions,
                   deviceFirmwareVersion, connectionReestablishedResolver,
                   getDeviceFirmwarePending, getFirmwareUpdatesPending,
                   reconnected>>
    /\ UNCHANGED codecVars

\* deviceUpdateScript from the completed upload to await waitForUpdateApplied
UploadDone(r) ==
    /\ phase = "page"
    /\ script[r].stage = "uploading"
    /\ connectionReestablishedResolver' = r
    /\ script' = [script EXCEPT ![r].stage = waitForUpdateApplied(reconnected),
                                ![r].early = reconnected]
    /\ UNCHANGED <<mainScene, updateScene, advancedOptions, firmwareVersions,
                   deviceFirmwareVersion, getDeviceFirmwarePending,
                   getFirmwareUpdatesPending, reconnected>>
    /\ UNCHANGED codecVars

\* deviceUpdateScript from the version the device reports to the 2 s timer,
\* or to the catch when it is not the version uploaded
VerifyDone(r, fw) ==
    /\ phase = "page"
    /\ script[r].stage = "verifying"
    /\ deviceFirmwareVersion' = fw
    /\ IF fw # script[r].firmwareVersion
       THEN /\ script' = [script EXCEPT ![r] = Ended("failed")]
            /\ updateScene' = "update-available"
       ELSE /\ script' = [script EXCEPT ![r].stage = "done"]
            /\ UNCHANGED updateScene
    /\ UNCHANGED <<mainScene, advancedOptions, firmwareVersions,
                   connectionReestablishedResolver, getDeviceFirmwarePending,
                   getFirmwareUpdatesPending, reconnected>>
    /\ UNCHANGED codecVars

\* deviceUpdateScript from the timer to its end
TimerDone(r) ==
    /\ phase = "page"
    /\ script[r].stage = "done"
    /\ script' = [script EXCEPT ![r] = Ended("finished")]
    /\ updateScene' = updateAvailableUpdate(updateScene, advancedOptions,
                                            firmwareVersions,
                                            deviceFirmwareVersion)
    /\ UNCHANGED <<mainScene, advancedOptions, firmwareVersions,
                   deviceFirmwareVersion, connectionReestablishedResolver,
                   getDeviceFirmwarePending, getFirmwareUpdatesPending,
                   reconnected>>
    /\ UNCHANGED codecVars

\* an await of deviceUpdateScript rejects: the catch
ScriptThrows(r) ==
    /\ phase = "page"
    /\ script[r].stage \in Rejecting
    /\ script' = [script EXCEPT ![r] = Ended("failed")]
    /\ updateScene' = "update-available"
    /\ UNCHANGED <<mainScene, advancedOptions, firmwareVersions,
                   deviceFirmwareVersion, connectionReestablishedResolver,
                   getDeviceFirmwarePending, getFirmwareUpdatesPending,
                   reconnected>>
    /\ UNCHANGED codecVars

NextPage ==
    \/ onConnect
    \/ onDisconnect
    \/ onConnectionReestablished
    \/ checkboxAdvancedChange
    \/ getFirmwareUpdates
    \/ \E fw \in DeviceVersions : getDeviceFirmware(fw)
    \/ \E r \in Runs : StartUpdate(r)
    \/ \E r \in Runs : FetchDone(r)
    \/ \E r \in Runs : UploadDone(r)
    \/ \E r \in Runs, fw \in DeviceVersions : VerifyDone(r, fw)
    \/ \E r \in Runs : TimerDone(r)
    \/ \E r \in Runs : ScriptThrows(r)

SpecPage == InitPage /\ [][NextPage]_vars

\* ------------------------------------------------------------------------
\* Claims about the page
\* ------------------------------------------------------------------------

\* C29: from the moment deviceUpdateScript shows 'updating' until it finishes
\* or fails, the updater scene shows 'updating': no other handler changes it.
C29_SceneStableDuringUpdate ==
    \A r \in Runs :
        script[r].stage \in Suspended => updateScene = "updating"

\* the stages a call of deviceUpdateScript reaches only through the await of
\* waitForUpdateApplied
Applied == {"verifying", "done"}

\* C30: a call of deviceUpdateScript is at 'verifying' or 'done' only when a
\* connection-reestablished event was delivered after it created the wait; an
\* event delivered before that does not count.
C30_FreshReconnect ==
    \A r \in Runs : script[r].stage \in Applied => script[r].fresh

\* a call that created the wait after an event had been delivered is verifying,
\* resumed by an event delivered since
C30_Witness ==
    \E r \in Runs :
        /\ script[r].stage = "verifying"
        /\ script[r].early
        /\ script[r].fresh

====
